---- MODULE Spec2Model ----
(***************************************************************************)
(* A model of hotrod's provider/technology resolution and coverage         *)
(* pipeline: the server's in-memory cache (server/services/fcc.js), the    *)
(* technology prober and the name resolver (the providers router), the     *)
(* state coverage route with buildCoverageGeoJSON, and the client's        *)
(* handleProviderAdd with fetchHexCoverage.                                *)
(*                                                                         *)
(* Time is counted in units of 30 minutes: the 30-minute TTL is 1 and the  *)
(* 1-hour TTLs are 2.  JavaScript null is the record Null.  A Map is a     *)
(* function whose DOMAIN is the set of keys it has.  Each asynchronous     *)
(* handler is cut at its awaits of network I/O: one action per segment.    *)
(***************************************************************************)
EXTENDS Integers, Sequences, FiniteSets, Bags, TLC

VARIABLES
    now,                     \* Date.now(), in units of 30 minutes
    cache,                   \* fcc.js: const cache = new Map()
    lastOp,                  \* the last cache operation and what it returned
    techProbeCache,          \* providers router: techProbeCache
    timers,                  \* pending setTimeout(() => techProbeCache.delete(key))
    bdcNameResolutionCache,  \* providers router: bdcNameResolutionCache
    calls,                   \* in-flight resolveProviderTechnologies calls
    lastReturn,              \* the call that returned last, with what it saw
    lastProbe,               \* the probe that settled last, with the cache around it
    resolves,                \* in-flight resolveBdcProviderByName calls (a bag)
    lastResolve,             \* the resolver call that returned last
    firstResolved,           \* per cache key: what the first returned call returned
    hexCache,                \* hexCoverage.js: _cache
    hexStoredAt,             \* per key of _cache: when its value was stored
    adds,                    \* in-flight handleProviderAdd calls (a bag)
    activeProviders,         \* main.js: activeProviders
    usedColors,              \* colors.js: usedColors
    colorIndex,              \* colors.js: colorIndex
    providerOverlays,        \* overlays.js: providerOverlays
    countyIndexCache,        \* counties.js: countyIndexCache (Null until loaded)
    lastAdd,                 \* what the last finished handleProviderAdd reported
    scoreIn,                 \* inputs of the last scoreNameMatch evaluation
    scoreOut,                \* its result
    mergeIn,                 \* the settled tile results given to the merge step
    mergeOut,                \* what the merge step made of them
    probeIn,                 \* the outcomes of the 40 requests of one probe
    probeOut,                \* what probeTechs made of them
    fan,                     \* a fan-out in flight: its sub-requests and its join
    loads,                   \* in-flight loadCounties calls (a bag)
    countyLoads,             \* boundary file fetches issued and loaded so far
    countyGeoJSONCache,      \* counties.js: countyGeoJSONCache (Null until loaded)
    fccCalls,                \* in-flight calls of fcc.js' exported functions (a bag)
    lastFcc,                 \* the fcc.js call that ended last, with the cache around it
    fnIn,                    \* the argument of the function a step evaluates
    fnOut,                   \* what the function returned for it
    panel,                   \* the add-provider panel: its module variables and view
    layers,                  \* the layers of the map: entries, cards, colours, overlays
    colorState,              \* colors.js on its own: usedColors, colorIndex, last call
    routes                   \* the Express routes: the request handled last

cacheVars  == <<now, cache, lastOp>>
techVars   == <<techProbeCache, timers, calls, lastReturn, lastProbe>>
nameVars   == <<bdcNameResolutionCache, resolves, lastResolve, firstResolved>>
coverVars  == <<hexCache, hexStoredAt, adds, activeProviders, usedColors, colorIndex,
                providerOverlays, countyIndexCache, lastAdd>>
scoreVars  == <<scoreIn, scoreOut>>
pureVars   == <<mergeIn, mergeOut, probeIn, probeOut>>
joinVars   == <<fan>>
geoVars    == <<loads, countyLoads, countyGeoJSONCache>>
fccVars    == <<fccCalls, lastFcc>>
fnVars     == <<fnIn, fnOut>>
panelVars  == <<panel>>
layerVars  == <<layers>>
extraVars  == <<colorState, routes>>
otherVars  == <<fccVars, fnVars, panelVars, layerVars, extraVars>>
vars == <<cacheVars, techVars, nameVars, coverVars, scoreVars, pureVars, joinVars, geoVars,
          otherVars>>

Null == [null |-> TRUE]

(* ------------------------------------------------------------------------ *)
(* Bounds of the model                                                      *)
(* ------------------------------------------------------------------------ *)

MaxTime == 4          \* the clock stops advancing here
MaxNameWords == 2     \* words in a name given to scoreNameMatch
MaxRows == 2          \* rows in one answer of the provider search
MaxResolves == 2      \* resolveBdcProviderByName calls in flight
MaxAdds == 2          \* colours handed out by assignColor (adds of a new layer)
MaxTileFeatures == 2  \* features decoded from one tile
FanTiles == 2         \* sample tiles per technology, and grid rows, in the fan-outs
MaxLoads == 3         \* calls of getAllCounties / buildCoverageGeoJSON
HexTiles == 2         \* tiles of the grid fetchHexCoverage fetches

(* ------------------------------------------------------------------------ *)
(* Program constants (time unit: 30 minutes)                                *)
(* ------------------------------------------------------------------------ *)

TTL_TECH     == 2     \* 60 * 60 * 1000 ms
TTL_COVERAGE == 1     \* 30 * 60 * 1000 ms
TTL_SEARCH   == 2     \* setCached(key, providers, 60 * 60 * 1000)
TTL_PROBE    == 2     \* setTimeout(..., 60 * 60 * 1000)

(* ------------------------------------------------------------------------ *)
(* Maps                                                                     *)
(* ------------------------------------------------------------------------ *)

EmptyMap == [k \in {} |-> Null]

MapHas(m, k) == k \in DOMAIN m

MapSet(m, k, v) == [x \in DOMAIN m \cup {k} |-> IF x = k THEN v ELSE m[x]]

MapDelete(m, k) == [x \in DOMAIN m \ {k} |-> m[x]]

(* ------------------------------------------------------------------------ *)
(* fcc.js: getCached / setCached                                            *)
(* ------------------------------------------------------------------------ *)

\* if (!e || Date.now() > e.expiresAt)
Expired(e, t) == t > e.expiresAt

\* a cache that forgets the expiry test
CacheMiss_NoExpiry(c, key, t) == ~MapHas(c, key)

CacheMiss(c, key, t) == ~MapHas(c, key) \/ Expired(c[key], t)

\* getCached's return value: null on a miss, e.data otherwise
GetCachedValue(c, key, t) == IF CacheMiss(c, key, t) THEN Null ELSE c[key].data

\* getCached's effect on the map: cache.delete(key) on a miss
GetCachedMap(c, key, t) == IF CacheMiss(c, key, t) THEN MapDelete(c, key) ELSE c

\* cache.set(key, { data, expiresAt: Date.now() + ttlMs })
SetCached(c, key, data, ttlMs, t) ==
    MapSet(c, key, [data |-> data, expiresAt |-> t + ttlMs])

(* ------------------------------------------------------------------------ *)
(* Strings: a string is a sequence of one-character strings                 *)
(* ------------------------------------------------------------------------ *)

UpperChars == "ABCDEFGHIJKLMNOPQRSTUVWXYZ"
LowerChars == "abcdefghijklmnopqrstuvwxyz"
DigitChars == "0123456789"

CharAt(s, i) == SubSeq(s, i, i)

\* the least i in from..Len(s) with s[i] = c, or 0
RECURSIVE IndexFrom(_, _, _)
IndexFrom(s, c, from) ==
    IF from > Len(s) THEN 0
    ELSE IF CharAt(s, from) = c THEN from
    ELSE IndexFrom(s, c, from + 1)

IsIn(c, chars) == IndexFrom(chars, c, 1) # 0

LowerChar(c) ==
    LET i == IndexFrom(UpperChars, c, 1)
    IN  IF i = 0 THEN c ELSE CharAt(LowerChars, i)

\* .toLowerCase()
RECURSIVE toLowerCase(_)
toLowerCase(s) ==
    IF s = "" THEN "" ELSE LowerChar(Head(s)) \o toLowerCase(Tail(s))

\* .replace(/\([^)]*\)/g, ' ')
RECURSIVE replaceParens(_)
replaceParens(s) ==
    IF s = "" THEN ""
    ELSE IF Head(s) = "(" /\ IndexFrom(s, ")", 2) # 0
         THEN " " \o replaceParens(SubSeq(s, IndexFrom(s, ")", 2) + 1, Len(s)))
         ELSE Head(s) \o replaceParens(Tail(s))

\* .replace(/[^a-z0-9\s]/g, ' ')
RECURSIVE replaceNonAlnum(_)
replaceNonAlnum(s) ==
    IF s = "" THEN ""
    ELSE (IF IsIn(Head(s), LowerChars) \/ IsIn(Head(s), DigitChars) \/ Head(s) = " "
          THEN Head(s) ELSE " ") \o replaceNonAlnum(Tail(s))

\* .replace(/\s+/g, ' ')
RECURSIVE collapseSpaces(_)
collapseSpaces(s) ==
    IF Len(s) < 2 THEN s
    ELSE IF Head(s) = " " /\ CharAt(s, 2) = " " THEN collapseSpaces(Tail(s))
    ELSE Head(s) \o collapseSpaces(Tail(s))

\* .trim()
RECURSIVE trim(_)
trim(s) ==
    IF s = "" THEN ""
    ELSE IF Head(s) = " " THEN trim(Tail(s))
    ELSE IF CharAt(s, Len(s)) = " " THEN trim(SubSeq(s, 1, Len(s) - 1))
    ELSE s

\* .split(' '): "" splits to [""]
RECURSIVE split(_)
split(s) ==
    LET i == IndexFrom(s, " ", 1)
    IN  IF i = 0 THEN <<s>>
        ELSE <<SubSeq(s, 1, i - 1)>> \o split(SubSeq(s, i + 1, Len(s)))

\* tokens.join(' ')
RECURSIVE join(_)
join(tokens) ==
    IF tokens = <<>> THEN ""
    ELSE IF Len(tokens) = 1 THEN tokens[1]
    ELSE tokens[1] \o " " \o join(Tail(tokens))

Range(seq) == {seq[i] : i \in 1..Len(seq)}

(* ------------------------------------------------------------------------ *)
(* providers router: normalizeName / meaningfulTokens / scoreNameMatch      *)
(* ------------------------------------------------------------------------ *)

normalizeName(str) ==
    trim(collapseSpaces(replaceNonAlnum(replaceParens(toLowerCase(str)))))

STOP == {
    "inc", "llc", "ltd", "corp", "co", "company", "corporation", "communications",
    "communication", "the", "of", "and", "wireless", "telephone", "broadband",
    "network", "networks", "services", "service", "holdings", "group" }

meaningfulTokens(name) ==
    SelectSeq(split(normalizeName(name)), LAMBDA token : Len(token) >= 3 /\ token \notin STOP)

\* The names the model uses, and the two functions tabulated over them once.
ScoreWords == {"Acme", "FIBER", "Inc.", "(TX)", "Tel-Co"}

ScoreNames ==
    {join(ws) : ws \in UNION {[1..k -> ScoreWords] : k \in 0..MaxNameWords}}

RowComcast   == [id |-> "130077", name |-> "Comcast Cable Communications LLC"]
RowAcmeFiber == [id |-> "2002", name |-> "Acme Fiber Networks, Inc."]
RowAcmeTel   == [id |-> "3003", name |-> "ACME Telephone Co."]

SearchRows == {RowComcast, RowAcmeFiber, RowAcmeTel}

ResolverNames == {"Comcast", "Acme Fiber (TX)", "ACME-Fiber", "The Co."}

KnownNames == ScoreNames \cup ResolverNames \cup {row.name : row \in SearchRows} \cup {""}

normalizedTable == [name \in KnownNames |-> normalizeName(name)]

tokensTable == [name \in KnownNames |-> meaningfulTokens(name)]

Normalized(name) == normalizedTable[name]

Tokens(name) == tokensTable[name]

\* for (const token of left) { if (right.has(token)) hits += 1 }
scoreNameMatch(form477Name, bdcName) ==
    LET left  == Tokens(form477Name)
        right == Range(Tokens(bdcName))
    IN  Cardinality({i \in 1..Len(left) : left[i] \in right})

(* ------------------------------------------------------------------------ *)
(* providers router: resolveBdcProviderByName                               *)
(* ------------------------------------------------------------------------ *)

\* [...new Set(seq)]: the first occurrence of each element, in order
RECURSIVE Dedup(_)
Dedup(seq) ==
    IF seq = <<>> THEN <<>>
    ELSE LET init == Dedup(SubSeq(seq, 1, Len(seq) - 1))
             last == seq[Len(seq)]
         IN  IF last \in Range(init) THEN init ELSE Append(init, last)

\* the first token alone is tried before the two-token query
candidateQueries_Reversed(tokens) ==
    Dedup(SelectSeq(<<tokens[1], join(SubSeq(tokens, 1, IF Len(tokens) < 2 THEN Len(tokens) ELSE 2))>>,
                    LAMBDA q : q # ""))

\* candidateQueries.push(tokens.slice(0, 2).join(' ')); candidateQueries.push(tokens[0]);
\* const dedup = [...new Set(candidateQueries.filter(Boolean))]
candidateQueries(tokens) ==
    Dedup(SelectSeq(<<join(SubSeq(tokens, 1, IF Len(tokens) < 2 THEN Len(tokens) ELSE 2)), tokens[1]>>,
                    LAMBDA q : q # ""))

\* for (const row of rows) { if (score > bestScore) { best = row; bestScore = score } }
RECURSIVE bestOf(_, _, _, _, _)
bestOf(providerName, rows, i, best, bestScore) ==
    IF i > Len(rows) THEN [best |-> best, bestScore |-> bestScore]
    ELSE LET score == scoreNameMatch(providerName, rows[i].name)
         IN  IF score > bestScore
             THEN bestOf(providerName, rows, i + 1, rows[i], score)
             ELSE bestOf(providerName, rows, i + 1, best, bestScore)

\* any matching token is enough
minScore_One(providerName) == 1

\* Math.min(2, Tokens(providerName).length)
minScore(providerName) ==
    IF Len(Tokens(providerName)) < 2 THEN Len(Tokens(providerName)) ELSE 2

\* the row one answer of the search makes the resolver return, or Null
acceptedRow(providerName, rows) ==
    LET b == bestOf(providerName, rows, 1, Null, 0)
    IN  IF b.best # Null /\ b.bestScore >= minScore(providerName) THEN b.best ELSE Null

\* what one awaited search does to the loop over the queries:
\* "throw" (caught), "empty" (continue), "rejected" (no acceptable hit), "accepted"
searchVerdict(providerName, outcome) ==
    IF ~outcome.ok THEN "throw"
    ELSE IF outcome.rows = <<>> THEN "empty"
    ELSE IF acceptedRow(providerName, outcome.rows) = Null THEN "rejected"
    ELSE "accepted"

\* The synchronous head of resolveBdcProviderByName: up to the first awaited search.
resolveStart(nameCache, providerName) ==
    LET cacheKey == Normalized(providerName)
        tokens   == Tokens(providerName)
        st0      == [providerName |-> providerName, queries |-> <<>>, issued |-> <<>>,
                     verdicts |-> <<>>, fromCache |-> FALSE]
    IN  IF MapHas(nameCache, cacheKey)
        THEN [done |-> TRUE, ret |-> nameCache[cacheKey], nameCache |-> nameCache,
              st |-> [st0 EXCEPT !.fromCache = TRUE], rows |-> <<>>]
        ELSE IF tokens = <<>>
        THEN [done |-> TRUE, ret |-> Null, nameCache |-> MapSet(nameCache, cacheKey, Null),
              st |-> st0, rows |-> <<>>]
        ELSE [done |-> FALSE, ret |-> Null, nameCache |-> nameCache,
              st |-> [st0 EXCEPT !.queries = candidateQueries(tokens),
                                 !.issued = <<candidateQueries(tokens)[1]>>],
              rows |-> <<>>]

\* The segment that runs when the awaited searchBdcProviders(query, 25) settles.
resolveOnSearch(nameCache, st, outcome) ==
    LET cacheKey == Normalized(st.providerName)
        verdict  == searchVerdict(st.providerName, outcome)
        st1      == [st EXCEPT !.verdicts = Append(@, verdict)]
    IN  IF verdict = "accepted"
        THEN [done |-> TRUE, ret |-> acceptedRow(st.providerName, outcome.rows),
              nameCache |-> MapSet(nameCache, cacheKey,
                                   acceptedRow(st.providerName, outcome.rows)),
              st |-> st1, rows |-> outcome.rows]
        ELSE IF Len(st.issued) < Len(st.queries)
        THEN [done |-> FALSE, ret |-> Null, nameCache |-> nameCache,
              st |-> [st1 EXCEPT !.issued = Append(@, st.queries[Len(st.issued) + 1])],
              rows |-> outcome.rows]
        ELSE [done |-> TRUE, ret |-> Null, nameCache |-> MapSet(nameCache, cacheKey, Null),
              st |-> st1, rows |-> outcome.rows]

\* the answers of searchBdcProviders: a thrown error, or up to MaxRows distinct rows
SearchThrows == [ok |-> FALSE, rows |-> <<>>]

SearchOutcomes ==
    {SearchThrows} \cup
    {[ok |-> TRUE, rows |-> rows] :
        rows \in {r \in UNION {[1..k -> SearchRows] : k \in 0..MaxRows} :
                    \A i, j \in DOMAIN r : i # j => r[i] # r[j]}}

(* ------------------------------------------------------------------------ *)
(* providers router: probeTechs                                             *)
(* ------------------------------------------------------------------------ *)

\* 8 zoom-5 tiles [z, x, y]
PROBE_TILES == << <<5, 4, 11>>, <<5, 5, 12>>, <<5, 6, 12>>, <<5, 7, 11>>,
                  <<5, 7, 12>>, <<5, 8, 11>>, <<5, 9, 11>>, <<5, 9, 12>> >>

PROBE_TECHS == <<"10", "40", "50", "60", "70">>

\* Number(str) of a string of decimal digits
RECURSIVE Number(_)
Number(str) ==
    IF str = "" THEN 0
    ELSE 10 * Number(SubSeq(str, 1, Len(str) - 1))
            + (IndexFrom(DigitChars, CharAt(str, Len(str)), 1) - 1)

\* insert x into a list sorted by Number, after the elements that are not greater
RECURSIVE insertByNumber(_, _)
insertByNumber(sorted, x) ==
    IF sorted = <<>> THEN <<x>>
    ELSE IF Number(x) - Number(sorted[1]) < 0 THEN <<x>> \o sorted
    ELSE <<sorted[1]>> \o insertByNumber(Tail(sorted), x)

\* a list handed on in the order it came in
sortByNumber_None(list) == list

\* .sort((a, b) => Number(a) - Number(b)): a stable sort
RECURSIVE sortByNumber(_)
sortByNumber(list) ==
    IF list = <<>> THEN <<>>
    ELSE insertByNumber(sortByNumber(SubSeq(list, 1, Len(list) - 1)), list[Len(list)])

\* One probe request settles as "data" (2xx, body not empty), "empty" (2xx, no bytes),
\* "status" (not 2xx) or "error" (fetch rejected or timed out).
\* a probe that takes any 2xx answer for evidence
probeHit_AnyOk(outcome) == outcome \in {"data", "empty"}

\* if (!res.ok) return false; return buf.byteLength > 0; catch { return false }
probeHit(outcome) == outcome = "data"

\* a probe request without its try/catch: a failed fetch rejects the promise
probeRequest_NoCatch(outcome) ==
    IF outcome \in {"error", "timeout"}
    THEN [status |-> "rejected", value |-> FALSE]
    ELSE [status |-> "fulfilled", value |-> probeHit(outcome)]

\* PROBE_TILES.map(async ([z, x, y]) => { try { ... } catch { return false; } }):
\* the promise of one probe request; "timeout" is AbortSignal.timeout(6000) firing
probeRequest(outcome) ==
    IF outcome \in {"error", "timeout"}
    THEN [status |-> "fulfilled", value |-> FALSE]
    ELSE [status |-> "fulfilled", value |-> probeHit(outcome)]

\* await Promise.all(PROBE_TECHS.map(async tech => { hits = await Promise.all(...);
\* return hits.some(Boolean) ? tech : null })), then filter(Boolean) and sort:
\* Promise.all rejects when one of its promises rejects
probeJoin(matrix) ==
    LET settled == [c \in DOMAIN matrix |-> probeRequest(matrix[c])]
    IN  IF \E c \in DOMAIN settled : settled[c].status = "rejected"
        THEN [kind |-> "thrown", techs |-> <<>>]
        ELSE [kind |-> "returned",
              techs |-> sortByNumber(SelectSeq(PROBE_TECHS,
                  LAMBDA tech : \E tile \in 1..Len(PROBE_TILES) :
                                    settled[tech, tile].value))]

\* results = PROBE_TECHS.map(tech => hits.some(Boolean) ? tech : null)
\* techs = results.filter(Boolean).sort((a, b) => Number(a) - Number(b))
probeResult(matrix) ==
    sortByNumber(SelectSeq(PROBE_TECHS,
        LAMBDA tech : \E tile \in 1..Len(PROBE_TILES) : probeHit(matrix[tech, tile])))

probeKey(providerId) == "probe:" \o providerId

\* every probe result is stored, the empty one too
probeStore_Always(w, providerId, techs, t) ==
    [w EXCEPT !.probe  = MapSet(@, probeKey(providerId), techs),
              !.timers = @ \cup {[key |-> probeKey(providerId), at |-> t + TTL_PROBE]}]

\* if (techs.length > 0) { techProbeCache.set(cacheKey, techs); setTimeout(delete, 1 h) }
probeStore(w, providerId, techs, t) ==
    IF Len(techs) > 0
    THEN [w EXCEPT !.probe  = MapSet(@, probeKey(providerId), techs),
                   !.timers = @ \cup {[key |-> probeKey(providerId), at |-> t + TTL_PROBE]}]
    ELSE w

\* the probe cache is never consulted
probeCached_Never(w, providerId) == FALSE

\* if (techProbeCache.has(cacheKey)) return techProbeCache.get(cacheKey)
probeCached(w, providerId) == MapHas(w.probe, probeKey(providerId))

(* ------------------------------------------------------------------------ *)
(* fcc.js: getProviderTechnologies                                          *)
(* ------------------------------------------------------------------------ *)

techKey(providerId) == "providers:tech:" \o providerId

\* data.filter(r => r.techcode && !seen.has(r.techcode)).map(r => ({ techcode }))
RECURSIVE uniqueTechs(_)
uniqueTechs(data) ==
    IF data = <<>> THEN <<>>
    ELSE LET init == uniqueTechs(SubSeq(data, 1, Len(data) - 1))
             r    == data[Len(data)]
         IN  IF r.techcode = "" \/ r.techcode \in {x.techcode : x \in Range(init)}
             THEN init
             ELSE Append(init, [techcode |-> r.techcode])

(* ------------------------------------------------------------------------ *)
(* providers router: resolveProviderTechnologies                            *)
(*                                                                          *)
(* w is the server's state (probe cache, timers, name cache, fcc cache),    *)
(* c the call's locals.  Each operator runs the call from one point to its  *)
(* next await of the network, or to its return.                             *)
(* ------------------------------------------------------------------------ *)

\* the locals of a name resolution that is not running
NoResolve == [providerName |-> "", queries |-> <<>>, issued |-> <<>>,
              verdicts |-> <<>>, fromCache |-> FALSE]

Waiting(w, c)        == [w |-> w, c |-> c, done |-> FALSE, threw |-> FALSE, result |-> Null]
Returned(w, c, res)  == [w |-> w, c |-> c, done |-> TRUE, threw |-> FALSE, result |-> res]
Thrown(w, c)         == [w |-> w, c |-> c, done |-> TRUE, threw |-> TRUE, result |-> Null]

differs(c) == c.resolvedBdc # Null /\ c.resolvedBdc.id # c.providerId

\* a fallback that reports the resolved provider under the requested ID
tabularResult_RequestedId(c, rows) ==
    LET technologies ==
            sortByNumber(SelectSeq([i \in 1..Len(rows) |-> rows[i].techcode],
                                   LAMBDA code : code # ""))
    IN  IF differs(c)
        THEN [technologies |-> technologies, source |-> "bdc_resolved",
              providerId |-> c.providerId, providerName |-> c.resolvedBdc.name,
              resolvedFromProviderId |-> c.providerId]
        ELSE [technologies |-> technologies, source |-> "form477",
              providerId |-> c.providerId]

\* rows.map(r => r.techcode).filter(Boolean).sort(...), then the two return statements
tabularResult(c, rows) ==
    LET technologies ==
            sortByNumber(SelectSeq([i \in 1..Len(rows) |-> rows[i].techcode],
                                   LAMBDA code : code # ""))
    IN  IF differs(c)
        THEN [technologies |-> technologies, source |-> "bdc_resolved",
              providerId |-> c.resolvedBdc.id, providerName |-> c.resolvedBdc.name,
              resolvedFromProviderId |-> c.providerId]
        ELSE [technologies |-> technologies, source |-> "form477",
              providerId |-> c.providerId]

\* const rows = await getProviderTechnologies(providerId): up to the Socrata fetch
tabularStart(w, c0, t) ==
    LET w1 == [w EXCEPT !.cache = GetCachedMap(@, techKey(c0.providerId), t)]
        c  == [c0 EXCEPT !.stages = Append(@, [stage |-> "tabular",
                                               id |-> c0.providerId])]
    IN  IF CacheMiss(w.cache, techKey(c.providerId), t)
        THEN Waiting(w1, [c EXCEPT !.pc = "tabular", !.fetches = @ + 1])
        ELSE Returned(w1, c, tabularResult(c, w.cache[techKey(c.providerId)].data))

\* the Socrata fetch settles: a rejection propagates out of the call
tabularSettle(w, c, outcome, t) ==
    IF ~outcome.ok THEN Thrown(w, c)
    ELSE Returned([w EXCEPT !.cache = SetCached(@, techKey(c.providerId),
                                                uniqueTechs(outcome.rows), TTL_TECH, t)],
                  c, tabularResult(c, uniqueTechs(outcome.rows)))

resolvedResult(c, techs) ==
    [technologies |-> techs, source |-> "bdc_resolved",
     providerId |-> c.resolvedBdc.id, providerName |-> c.resolvedBdc.name,
     resolvedFromProviderId |-> c.providerId]

\* the stage of a call that has run: a probe of an ID with what it detected, the name
\* resolution with its decision, the tabular query
probed(c, id, techs) ==
    [c EXCEPT !.stages = Append(@, [stage |-> "probe", id |-> id, techs |-> techs])]

named(c) ==
    [c EXCEPT !.stages = Append(@, [stage |-> "name", resolved |-> c.resolvedBdc])]

\* a lookup that asks the tabular source whatever the probe of the resolved ID found
afterProbe2_ThenTabular(w, c, techs, t) ==
    tabularStart(w, probed(c, c.resolvedBdc.id, techs), t)

\* after techs = await probeTechs(resolvedBdc.id)
afterProbe2(w, c, techs, t) ==
    IF Len(techs) > 0
    THEN Returned(w, probed(c, c.resolvedBdc.id, techs),
                  resolvedResult(c, techs))
    ELSE tabularStart(w, probed(c, c.resolvedBdc.id, techs), t)

\* after resolvedBdc = await resolveBdcProviderByName(providerName)
afterName(w, c0, t) ==
    LET c == named(c0)
    IN
    IF differs(c)
    THEN IF probeCached(w, c.resolvedBdc.id)
         THEN afterProbe2(w, c, w.probe[probeKey(c.resolvedBdc.id)], t)
         ELSE Waiting(w, [c EXCEPT !.pc = "probe2", !.probes = @ + 1])
    ELSE tabularStart(w, c, t)

\* after techs = await probeTechs(providerId)
afterProbe1(w, c0, techs, t) ==
    LET c == probed(c0, c0.providerId, techs)
    IN
    IF Len(techs) > 0
    THEN Returned(w, c, [technologies |-> techs, source |-> "bdc",
                         providerId |-> c.providerId])
    ELSE IF c.providerName # ""
    THEN LET r == resolveStart(w.names, c.providerName)
         IN  IF r.done
             THEN afterName([w EXCEPT !.names = r.nameCache],
                            [c EXCEPT !.resolvedBdc = r.ret], t)
             ELSE Waiting(w, [c EXCEPT !.pc = "search", !.rst = r.st,
                                       !.searches = @ + 1])
    ELSE tabularStart(w, c, t)

\* resolveProviderTechnologies(providerId, providerName) is called
techStart(w, c, t) ==
    IF probeCached(w, c.providerId)
    THEN afterProbe1(w, c, w.probe[probeKey(c.providerId)], t)
    ELSE Waiting(w, [c EXCEPT !.pc = "probe1", !.probes = @ + 1])

\* all 40 probe requests of the probe the call awaits have settled
probeSettle(w, c, matrix, t) ==
    IF c.pc = "probe1"
    THEN afterProbe1(probeStore(w, c.providerId, probeResult(matrix), t),
                     c, probeResult(matrix), t)
    ELSE afterProbe2(probeStore(w, c.resolvedBdc.id, probeResult(matrix), t),
                     c, probeResult(matrix), t)

\* the search the call's name resolution awaits settles
searchSettle(w, c, outcome, t) ==
    LET r == resolveOnSearch(w.names, c.rst, outcome)
    IN  IF r.done
        THEN afterName([w EXCEPT !.names = r.nameCache],
                       [c EXCEPT !.resolvedBdc = r.ret, !.rst = NoResolve], t)
        ELSE Waiting(w, [c EXCEPT !.rst = r.st, !.searches = @ + 1])

(* ------------------------------------------------------------------------ *)
(* The cache alone: any sequence of sets, reads and clock advances          *)
(* ------------------------------------------------------------------------ *)

TestKeys == {"k1", "k2"}
TestData == {"a", "b"}
TestTtls == {TTL_COVERAGE, TTL_TECH}

NoOp == [op |-> "none"]

IdleCache ==
    /\ now = 0
    /\ cache = EmptyMap
    /\ lastOp = NoOp

IdleTech ==
    /\ techProbeCache = EmptyMap
    /\ timers = {}
    /\ calls = EmptyBag
    /\ lastReturn = NoOp
    /\ lastProbe = NoOp

IdleName ==
    /\ bdcNameResolutionCache = EmptyMap
    /\ resolves = EmptyBag
    /\ lastResolve = NoOp
    /\ firstResolved = EmptyMap

IdleCover ==
    /\ hexCache = EmptyMap
    /\ hexStoredAt = EmptyMap
    /\ adds = EmptyBag
    /\ activeProviders = EmptyMap
    /\ usedColors = EmptyMap
    /\ colorIndex = 0
    /\ providerOverlays = EmptyMap
    /\ countyIndexCache = Null
    /\ lastAdd = NoOp

IdleScore ==
    /\ scoreIn = NoOp
    /\ scoreOut = 0

IdlePure ==
    /\ mergeIn = <<>>
    /\ mergeOut = NoOp
    /\ probeIn = NoOp
    /\ probeOut = NoOp

IdleJoin == fan = NoOp

IdleGeo ==
    /\ loads = EmptyBag
    /\ countyLoads = [calls |-> 0, issued |-> 0, loaded |-> 0, late |-> 0]
    /\ countyGeoJSONCache = Null

IdleFcc ==
    /\ fccCalls = EmptyBag
    /\ lastFcc = NoOp

IdleFn ==
    /\ fnIn = NoOp
    /\ fnOut = NoOp

IdlePanel == panel = NoOp

IdleLayers == layers = NoOp

IdleColors == colorState = NoOp

IdleRoutes == routes = NoOp

IdleExtra == IdleColors /\ IdleRoutes

IdleOther == IdleFcc /\ IdleFn /\ IdlePanel /\ IdleLayers /\ IdleExtra

IdleRest == IdlePure /\ IdleJoin /\ IdleGeo /\ IdleOther

InitCache == IdleCache /\ IdleTech /\ IdleName /\ IdleCover /\ IdleScore /\ IdleRest

\* setCached(key, data, ttlMs)
CacheSet(key, data, ttlMs) ==
    /\ cache' = SetCached(cache, key, data, ttlMs, now)
    /\ lastOp' = [op |-> "set", key |-> key, at |-> now]
    /\ UNCHANGED <<now, techVars, nameVars, coverVars, scoreVars, pureVars, joinVars, geoVars, otherVars>>

\* getCached(key)
CacheGet(key) ==
    /\ cache' = GetCachedMap(cache, key, now)
    /\ lastOp' = [op |-> "get", key |-> key, at |-> now,
                  had |-> MapHas(cache, key),
                  before |-> IF MapHas(cache, key) THEN cache[key] ELSE Null,
                  hit |-> ~CacheMiss(cache, key, now),
                  ret |-> GetCachedValue(cache, key, now)]
    /\ UNCHANGED <<now, techVars, nameVars, coverVars, scoreVars, pureVars, joinVars, geoVars, otherVars>>

\* the clock advances
Tick ==
    /\ now < MaxTime
    /\ \A tm \in timers : tm.at > now
    /\ now' = now + 1
    /\ UNCHANGED <<cache, lastOp, techVars, nameVars, coverVars, scoreVars, pureVars, joinVars, geoVars, otherVars>>

NextCache ==
    \/ \E key \in TestKeys, data \in TestData, ttlMs \in TestTtls :
            CacheSet(key, data, ttlMs)
    \/ \E key \in TestKeys : CacheGet(key)
    \/ Tick

SpecCache == InitCache /\ [][NextCache]_vars

\* what a read returns and does to the entry it reads
C1_ReadState ==
    lastOp.op = "get" =>
        /\ (lastOp.had /\ lastOp.at > lastOp.before.expiresAt) =>
                ~lastOp.hit /\ ~MapHas(cache, lastOp.key)
        /\ (lastOp.had /\ lastOp.at <= lastOp.before.expiresAt) =>
                /\ lastOp.hit
                /\ lastOp.ret = lastOp.before.data
                /\ MapHas(cache, lastOp.key)
                /\ cache[lastOp.key] = lastOp.before
        /\ ~lastOp.had => ~lastOp.hit /\ ~MapHas(cache, lastOp.key)

\* how entries come and go
C1_EntryStep ==
    \A k \in TestKeys :
        /\ (~MapHas(cache, k) /\ MapHas(cache', k)) =>
                lastOp'.op = "set" /\ lastOp'.key = k
        /\ (MapHas(cache, k) /\ ~MapHas(cache', k)) =>
                /\ now > cache[k].expiresAt
                /\ lastOp'.op = "get" /\ lastOp'.key = k
        /\ (MapHas(cache, k) /\ MapHas(cache', k) /\ cache'[k] # cache[k]) =>
                lastOp'.op = "set" /\ lastOp'.key = k

(* C1: a read of an expired entry (now > expiresAt) is a miss and removes   *)
(* the entry; a read of an unexpired entry returns the stored value and     *)
(* leaves the entry in place; an entry appears only by a set and            *)
(* disappears only by a read after it has expired, so no expired value is   *)
(* ever returned.                                                           *)
C1_CacheExpiry == [](C1_ReadState) /\ [][C1_EntryStep]_vars

C1_Witness ==
    /\ lastOp.op = "get"
    /\ lastOp.had
    /\ lastOp.at > lastOp.before.expiresAt
    /\ MapHas(cache, "k2")

(* ------------------------------------------------------------------------ *)
(* The technology lookup: resolveProviderTechnologies behind                *)
(* GET /api/providers/:id/technologies, one request at a time               *)
(* ------------------------------------------------------------------------ *)

TechRequestIds   == {"477"}
TechRequestNames == {"", "Acme Fiber (TX)"}

\* what the 40 requests of one probe can come back with: nothing anywhere (empty
\* bodies, error statuses, or failures), or data for some technologies on one tile
ProbeAll(outcome) ==
    [tech \in Range(PROBE_TECHS), tile \in 1..Len(PROBE_TILES) |-> outcome]

ProbeSome(found, tileNo, rest) ==
    [tech \in Range(PROBE_TECHS), tile \in 1..Len(PROBE_TILES) |->
        IF tech \in found /\ tile = tileNo THEN "data" ELSE rest]

ProbeOutcomes ==
    {ProbeAll("empty"), ProbeAll("status"), ProbeAll("error"),
     ProbeSome({"50"}, 3, "empty"), ProbeSome({"70", "40"}, 8, "error")}

\* the answers of the provider search seen by the lookup's name resolution
TechSearchOutcomes == {o \in SearchOutcomes : Len(o.rows) <= 1}

\* the answers of the Socrata technology query: a failure, no rows, or rows with a
\* repeated and a missing techcode
TabularOutcomes ==
    {[ok |-> FALSE, rows |-> <<>>],
     [ok |-> TRUE, rows |-> <<>>],
     [ok |-> TRUE, rows |-> <<[techcode |-> "70"], [techcode |-> ""],
                              [techcode |-> "50"], [techcode |-> "9"],
                              [techcode |-> "70"]>>]}

InitTech == IdleCache /\ IdleTech /\ IdleName /\ IdleCover /\ IdleScore /\ IdleRest

World == [probe |-> techProbeCache, timers |-> timers,
          names |-> bdcNameResolutionCache, cache |-> cache]

\* the state after a segment of a call: the server's maps, the call, and the record
\* of the call when it has returned
TechApply(o, before) ==
    /\ techProbeCache' = o.w.probe
    /\ timers' = o.w.timers
    /\ bdcNameResolutionCache' = o.w.names
    /\ cache' = o.w.cache
    /\ IF o.done
       THEN /\ calls' = calls (-) SetToBag({before})
            /\ lastReturn' = [op |-> "return", threw |-> o.threw, result |-> o.result,
                              providerId |-> o.c.providerId,
                              providerName |-> o.c.providerName,
                              probes |-> o.c.probes, searches |-> o.c.searches,
                              fetches |-> o.c.fetches, start |-> o.c.start,
                              stages |-> o.c.stages,
                              startEntry |-> o.c.startEntry,
                              stored |-> IF MapHas(o.w.probe, probeKey(o.c.providerId))
                                         THEN o.w.probe[probeKey(o.c.providerId)]
                                         ELSE <<>>]
       ELSE /\ calls' = (calls (-) SetToBag({before})) (+) SetToBag({o.c})
            /\ UNCHANGED lastReturn
    /\ UNCHANGED <<now, lastOp, resolves, lastResolve, firstResolved,
                   coverVars, scoreVars, pureVars, joinVars, geoVars, otherVars>>

\* GET /api/providers/:id/technologies?provider_name=...
TechCall(providerId, providerName) ==
    LET c == [pc |-> "start", providerId |-> providerId, providerName |-> providerName,
              resolvedBdc |-> Null, rst |-> NoResolve,
              probes |-> 0, searches |-> 0, fetches |-> 0, stages |-> <<>>,
              start |-> now,
              startEntry |-> IF MapHas(techProbeCache, probeKey(providerId))
                             THEN techProbeCache[probeKey(providerId)] ELSE <<>>]
    IN  /\ calls = EmptyBag
        /\ TechApply(techStart(World, c, now), c)
        /\ UNCHANGED lastProbe

\* the 40 requests of the probe a call awaits have settled
ProbeSettles(call, matrix) ==
    LET key == probeKey(IF call.pc = "probe1" THEN call.providerId
                        ELSE call.resolvedBdc.id)
    IN  /\ BagIn(call, calls)
        /\ call.pc \in {"probe1", "probe2"}
        /\ TechApply(probeSettle(World, call, matrix, now), call)
        /\ lastProbe' = [op |-> "probe", key |-> key, by |-> call.providerId,
                         anyData |-> \E cell \in DOMAIN matrix : matrix[cell] = "data",
                         techs |-> probeResult(matrix),
                         stored |-> IF MapHas(techProbeCache', key)
                                    THEN techProbeCache'[key] ELSE <<>>,
                         hadEntry |-> MapHas(techProbeCache, key),
                         hasEntry |-> MapHas(techProbeCache', key),
                         cacheChanged |-> techProbeCache' # techProbeCache,
                         timersChanged |-> timers' # timers]

\* the provider search a call's name resolution awaits has settled
TechSearchSettles(call, outcome) ==
    /\ BagIn(call, calls)
    /\ call.pc = "search"
    /\ TechApply(searchSettle(World, call, outcome, now), call)
    /\ UNCHANGED lastProbe

\* the Socrata query a call awaits has settled
TabularSettles(call, outcome) ==
    /\ BagIn(call, calls)
    /\ call.pc = "tabular"
    /\ TechApply(tabularSettle(World, call, outcome, now), call)
    /\ UNCHANGED lastProbe

\* a timer set by probeTechs fires: techProbeCache.delete(cacheKey)
ProbeTimerFires(tm) ==
    /\ tm \in timers
    /\ tm.at <= now
    /\ techProbeCache' = MapDelete(techProbeCache, tm.key)
    /\ timers' = timers \ {tm}
    /\ UNCHANGED <<cacheVars, calls, lastReturn, lastProbe,
                   nameVars, coverVars, scoreVars, pureVars, joinVars, geoVars, otherVars>>

NextTech ==
    \/ \E providerId \in TechRequestIds, providerName \in TechRequestNames :
            TechCall(providerId, providerName)
    \/ \E call \in BagToSet(calls), matrix \in ProbeOutcomes :
            ProbeSettles(call, matrix)
    \/ \E call \in BagToSet(calls), outcome \in TechSearchOutcomes :
            TechSearchSettles(call, outcome)
    \/ \E call \in BagToSet(calls), outcome \in TabularOutcomes :
            TabularSettles(call, outcome)
    \/ \E tm \in timers : ProbeTimerFires(tm)
    \/ Tick

SpecTech == InitTech /\ [][NextTech]_vars

TechReturned == lastReturn.op = "return"

NoFetch == lastReturn.probes = 0 /\ lastReturn.searches = 0 /\ lastReturn.fetches = 0

\* a call that starts when the probe cache has no entry for its provider ID sends
\* the probe requests
NoEntryProbes ==
    (TechReturned /\ lastReturn.startEntry = <<>>) => lastReturn.probes >= 1

\* a call returns after a call with the same arguments that started at most 1 hour
\* before it and did not fail
SecondWithinTtl ==
    /\ TechReturned
    /\ ~lastReturn.threw
    /\ lastReturn' # lastReturn
    /\ lastReturn'.providerId = lastReturn.providerId
    /\ lastReturn'.providerName = lastReturn.providerName
    /\ lastReturn'.start >= lastReturn.start
    /\ lastReturn'.start - lastReturn.start <= TTL_PROBE

(* C2, as stated: of two calls of resolveProviderTechnologies with the same *)
(* provider ID (and name) made within 1 hour of each other, the second      *)
(* returns what the first returned and sends no upstream request.           *)
C2_IdempotentWithinTtl ==
    [][SecondWithinTtl =>
          /\ ~lastReturn'.threw
          /\ lastReturn'.result = lastReturn.result
          /\ NoFetch']_vars

(* C2, amended: the lookup is idempotent only through the probe cache.  A   *)
(* call whose probe of the given ID detects a technology returns source     *)
(* 'bdc' and leaves the list in the probe cache under that ID; every call   *)
(* that starts while the entry is there returns exactly that list with      *)
(* source 'bdc' and sends no upstream request; the entry has a pending      *)
(* eviction timer due at most 1 hour ahead.  A call that starts with no     *)
(* entry (as after a call whose probe detected nothing) probes again.       *)
C2_IdempotentWhileProbeCached ==
    /\ TechReturned =>
          /\ lastReturn.startEntry # <<>> =>
                /\ ~lastReturn.threw
                /\ lastReturn.result = [technologies |-> lastReturn.startEntry,
                                        source |-> "bdc",
                                        providerId |-> lastReturn.providerId]
                /\ NoFetch
          /\ (/\ lastReturn.startEntry = <<>>
              /\ ~lastReturn.threw
              /\ lastReturn.result.source = "bdc") =>
                /\ lastReturn.result.technologies # <<>>
                /\ lastReturn.stored = lastReturn.result.technologies
    /\ NoEntryProbes
    /\ \A key \in DOMAIN techProbeCache :
          \E tm \in timers : tm.key = key /\ tm.at >= now /\ tm.at <= now + TTL_PROBE

C2_Witness ==
    /\ TechReturned
    /\ lastReturn.startEntry # <<>>
    /\ lastReturn.start > 0
    /\ lastReturn.result.source = "bdc"
    /\ NoFetch

StrictlyAscending(codes) ==
    \A i, j \in 1..Len(codes) : i < j => Number(codes[i]) < Number(codes[j])

(* C24: the technologies array resolveProviderTechnologies returns is       *)
(* sorted ascending by numeric code and has no duplicates, in each branch   *)
(* (probe of the given ID, probe of the resolved ID, tabular fallback); a   *)
(* probe result has codes of the fixed probe list only.                     *)
C24_SortedNoDuplicates ==
    /\ (TechReturned /\ ~lastReturn.threw) =>
          /\ StrictlyAscending(lastReturn.result.technologies)
          /\ lastReturn.result.source = "bdc" =>
                Range(lastReturn.result.technologies) \subseteq Range(PROBE_TECHS)
    /\ lastProbe.op = "probe" =>
          /\ StrictlyAscending(lastProbe.techs)
          /\ Range(lastProbe.techs) \subseteq Range(PROBE_TECHS)

C24_Witness ==
    /\ TechReturned
    /\ ~lastReturn.threw
    /\ lastReturn.result.source = "bdc_resolved"
    /\ lastReturn.result.technologies = <<"9", "50", "70">>
    /\ lastProbe.op = "probe"
    /\ lastProbe.techs = <<>>

\* the stages of a call, in the order they ran
StagesInOrder(providerId, providerName, s) ==
    /\ s # <<>> =>
          /\ s[1].stage = "probe"
          /\ s[1].id = providerId
    /\ \A i \in 1..Len(s) :
          /\ (s[i].stage = "probe" /\ s[i].techs # <<>>) => i = Len(s)
          /\ s[i].stage = "name" =>
                /\ i = 2
                /\ s[1].techs = <<>>
                /\ providerName # ""
          /\ (s[i].stage = "probe" /\ i > 1) =>
                /\ i = 3
                /\ s[2].stage = "name"
                /\ s[2].resolved # Null
                /\ s[i].id = s[2].resolved.id
          /\ s[i].stage = "tabular" =>
                /\ i = Len(s)
                /\ \A j \in 1..(i - 1) : s[j].stage = "probe" => s[j].techs = <<>>

(* C27: resolveProviderTechnologies runs its stages in a fixed order: the   *)
(* probe of the supplied ID comes first, and the call returns source 'bdc'  *)
(* if it detects a technology; the name resolution (and the probe of the    *)
(* resolved ID) runs only if that probe detected nothing and a name was     *)
(* supplied; the tabular query is issued only if no probe detected a        *)
(* technology.                                                              *)
C27_StagesInFixedOrder ==
    /\ \A c \in BagToSet(calls) : StagesInOrder(c.providerId, c.providerName, c.stages)
    /\ TechReturned =>
          /\ lastReturn.stages # <<>>
          /\ StagesInOrder(lastReturn.providerId, lastReturn.providerName,
                           lastReturn.stages)
          /\ lastReturn.stages[1].techs # <<>> =>
                (~lastReturn.threw /\ lastReturn.result.source = "bdc")
          /\ lastReturn.fetches > 0 =>
                lastReturn.stages[Len(lastReturn.stages)].stage = "tabular"

C27_Witness ==
    /\ TechReturned
    /\ ~lastReturn.threw
    /\ Len(lastReturn.stages) = 4
    /\ lastReturn.stages[4].stage = "tabular"
    /\ lastReturn.result.source = "bdc_resolved"
    /\ lastReturn.fetches = 1

\* the result's technologies are what the probe of the returned ID detected
ProbedOfReturnedId ==
    \E i \in 1..Len(lastReturn.stages) :
        /\ lastReturn.stages[i].stage = "probe"
        /\ lastReturn.stages[i].id = lastReturn.result.providerId
        /\ lastReturn.stages[i].techs = lastReturn.result.technologies
        /\ lastReturn.result.technologies # <<>>

\* the result's technologies come from the tabular query for the ID id
TabularOf(id) ==
    /\ lastReturn.stages[Len(lastReturn.stages)].stage = "tabular"
    /\ lastReturn.stages[Len(lastReturn.stages)].id = id

ResolvedFromRequested ==
    /\ lastReturn.result.resolvedFromProviderId = lastReturn.providerId
    /\ lastReturn.result.resolvedFromProviderId # lastReturn.result.providerId

\* C32 as stated: every 'bdc_resolved' result carries the technologies detected by
\* probing the returned providerId
C32_TechsOfReturnedId ==
    (TechReturned /\ ~lastReturn.threw) =>
        /\ lastReturn.result.source \in {"bdc", "bdc_resolved", "form477"}
        /\ lastReturn.result.source = "bdc" =>
              (ProbedOfReturnedId /\ lastReturn.result.providerId = lastReturn.providerId)
        /\ lastReturn.result.source = "bdc_resolved" =>
              (ProbedOfReturnedId /\ ResolvedFromRequested)
        /\ lastReturn.result.source = "form477" =>
              (TabularOf(lastReturn.result.providerId)
               /\ lastReturn.result.providerId = lastReturn.providerId)

(* C32: in every result of resolveProviderTechnologies a 'bdc' result       *)
(* carries the technologies detected by probing the returned providerId and *)
(* a 'form477' result the tabular technologies of the returned providerId;  *)
(* a 'bdc_resolved' result carries the technologies detected by probing the *)
(* returned providerId or, when that probe detected nothing, the tabular    *)
(* technologies of the requested ID, and always has resolvedFromProviderId  *)
(* equal to the requested ID and different from the returned providerId.    *)
C32_TechsOfReturnedOrRequestedId ==
    (TechReturned /\ ~lastReturn.threw) =>
        /\ lastReturn.result.source \in {"bdc", "bdc_resolved", "form477"}
        /\ lastReturn.result.source = "bdc" =>
              (ProbedOfReturnedId /\ lastReturn.result.providerId = lastReturn.providerId)
        /\ lastReturn.result.source = "bdc_resolved" =>
              /\ ResolvedFromRequested
              /\ \/ ProbedOfReturnedId
                 \/ /\ TabularOf(lastReturn.providerId)
                    /\ \E i \in 1..Len(lastReturn.stages) :
                          /\ lastReturn.stages[i].stage = "probe"
                          /\ lastReturn.stages[i].id = lastReturn.result.providerId
                          /\ lastReturn.stages[i].techs = <<>>
        /\ lastReturn.result.source = "form477" =>
              (TabularOf(lastReturn.result.providerId)
               /\ lastReturn.result.providerId = lastReturn.providerId)

C32_Witness ==
    /\ TechReturned
    /\ ~lastReturn.threw
    /\ lastReturn.result.source = "bdc_resolved"
    /\ TabularOf(lastReturn.providerId)
    /\ lastReturn.result.technologies = <<"9", "50", "70">>

RECURSIVE padStart(_, _, _)
padStart(str, n, ch) == IF Len(str) >= n THEN str ELSE padStart(ch \o str, n, ch)

\* Number.prototype.toFixed(4) of a coordinate given in units of 0.00001 degree
toFixed4(v) ==
    LET a == IF v < 0 THEN 0 - v ELSE v
        r == (a + 5) \div 10
    IN  (IF v < 0 THEN "-" ELSE "") \o ToString(r \div 10000) \o "."
            \o padStart(ToString(r % 10000), 4, "0")

\* Decoded tile features: properties.h3index and the first vertex, either of which
\* may be missing.
HexA == [hasH3 |-> TRUE, h3index |-> "85283473fffffff",
         hasCoord |-> TRUE, coord |-> <<-12241940, 3777490>>]
HexB == [hasH3 |-> TRUE, h3index |-> "8528347bfffffff",
         hasCoord |-> TRUE, coord |-> <<-12231870, 3781230>>]
HexNoKey == [hasH3 |-> FALSE, h3index |-> "", hasCoord |-> FALSE, coord |-> <<0, 0>>]
\* the hexagon of HexA as a neighbouring tile decodes it: same h3index, other vertex
HexA2 == [hasH3 |-> TRUE, h3index |-> "85283473fffffff",
          hasCoord |-> TRUE, coord |-> <<-12241938, 3777493>>]

\* const dk = h3 ?? (coord ? `${coord[0].toFixed(4)},${coord[1].toFixed(4)}` : null)
\* with coord = !h3 && f.geometry?.coordinates?.[0]?.[0]; "" stands for no key
dedupeKey(f) ==
    IF f.hasH3 THEN f.h3index
    ELSE IF f.hasCoord THEN toFixed4(f.coord[1]) \o "," \o toFixed4(f.coord[2])
    ELSE ""

\* One tile request ends "rejected" (fetchAndDecode itself rejects), "error" (fetch
\* threw), "status" (not 2xx), "empty" (no bytes), "undecodable", or "data".
\* fetchAndDecode resolves to [] in all but the last.
fetchAndDecode(outcome) == IF outcome.kind = "data" THEN outcome.features ELSE <<>>

\* a merge step that never looks at the keys it has seen
mergeFeatures_NoSeen(value, acc) ==
    [acc EXCEPT !.features = @ \o SelectSeq(value, LAMBDA f : dedupeKey(f) # "")]

\* for (const f of r.value) { if (!dk || seen.has(dk)) continue; seen.add(dk); push }
RECURSIVE mergeFeatures(_, _)
mergeFeatures(value, acc) ==
    IF value = <<>> THEN acc
    ELSE LET f  == Head(value)
             dk == dedupeKey(f)
         IN  IF dk = "" \/ dk \in acc.seen
             THEN mergeFeatures(Tail(value), acc)
             ELSE mergeFeatures(Tail(value),
                                [acc EXCEPT !.features = Append(@, f),
                                            !.seen = @ \cup {dk}])

\* for (const r of settled) { rejected: tilesErrored++; empty: tilesEmpty++; ... }
RECURSIVE mergeTiles(_, _)
mergeTiles(settled, acc) ==
    IF settled = <<>> THEN acc
    ELSE LET r == Head(settled)
         IN  IF r.kind = "rejected"
             THEN mergeTiles(Tail(settled), [acc EXCEPT !.tilesErrored = @ + 1])
             ELSE IF Len(fetchAndDecode(r)) = 0
             THEN mergeTiles(Tail(settled), [acc EXCEPT !.tilesEmpty = @ + 1])
             ELSE mergeTiles(Tail(settled),
                             mergeFeatures(fetchAndDecode(r),
                                           [acc EXCEPT !.tilesWithData = @ + 1]))

mergeStart == [features |-> <<>>, seen |-> {}, tilesWithData |-> 0,
               tilesEmpty |-> 0, tilesErrored |-> 0]

\* features.length > 0 ? { type: 'FeatureCollection', features } : null
hexResult(settled) ==
    LET features == mergeTiles(settled, mergeStart).features
    IN  IF Len(features) > 0
        THEN [type |-> "FeatureCollection", features |-> features]
        ELSE Null

(* ------------------------------------------------------------------------ *)
(* counties.js: loadCounties / buildCoverageGeoJSON                         *)
(* ------------------------------------------------------------------------ *)

UpperChar(c) ==
    LET i == IndexFrom(LowerChars, c, 1)
    IN  IF i = 0 THEN c ELSE CharAt(UpperChars, i)

\* .toUpperCase()
RECURSIVE toUpperCase(_)
toUpperCase(s) ==
    IF s = "" THEN "" ELSE UpperChar(Head(s)) \o toUpperCase(Tail(s))

StateFipsEntries ==
    {
     <<"AL", "01">>, <<"AK", "02">>, <<"AZ", "04">>, <<"AR", "05">>, <<"CA", "06">>,
     <<"CO", "08">>, <<"CT", "09">>, <<"DE", "10">>, <<"DC", "11">>, <<"FL", "12">>,
     <<"GA", "13">>, <<"HI", "15">>, <<"ID", "16">>, <<"IL", "17">>, <<"IN", "18">>,
     <<"IA", "19">>, <<"KS", "20">>, <<"KY", "21">>, <<"LA", "22">>, <<"ME", "23">>,
     <<"MD", "24">>, <<"MA", "25">>, <<"MI", "26">>, <<"MN", "27">>, <<"MS", "28">>,
     <<"MO", "29">>, <<"MT", "30">>, <<"NE", "31">>, <<"NV", "32">>, <<"NH", "33">>,
     <<"NJ", "34">>, <<"NM", "35">>, <<"NY", "36">>, <<"NC", "37">>, <<"ND", "38">>,
     <<"OH", "39">>, <<"OK", "40">>, <<"OR", "41">>, <<"PA", "42">>, <<"RI", "44">>,
     <<"SC", "45">>, <<"SD", "46">>, <<"TN", "47">>, <<"TX", "48">>, <<"UT", "49">>,
     <<"VT", "50">>, <<"VA", "51">>, <<"WA", "53">>, <<"WV", "54">>, <<"WI", "55">>,
     <<"WY", "56">>, <<"AS", "60">>, <<"GU", "66">>, <<"MP", "69">>, <<"PR", "72">>,
     <<"VI", "78">> }

STATE_FIPS ==
    [abbr \in {e[1] : e \in StateFipsEntries} |->
        (CHOOSE e \in StateFipsEntries : e[1] = abbr)[2]]

\* countyIndexCache.set(String(fips).padStart(5, '0'), feature) for each feature
buildIndex(featureIds) ==
    [fips \in {padStart(id, 5, "0") : id \in featureIds} |->
        [id |-> CHOOSE id \in featureIds : padStart(id, 5, "0") = fips]]

\* the loop of buildCoverageGeoJSON over the coverage rows
RECURSIVE coverageFeatures(_, _)
coverageFeatures(coverageRows, index) ==
    IF coverageRows = <<>> THEN <<>>
    ELSE LET row  == Head(coverageRows)
             abbr == toUpperCase(row.stateabbr)
             rest == coverageFeatures(Tail(coverageRows), index)
         IN  IF abbr \notin DOMAIN STATE_FIPS THEN rest
             ELSE LET fullFips == STATE_FIPS[abbr] \o padStart(row.countycode, 3, "0")
                  IN  IF MapHas(index, fullFips) THEN <<index[fullFips]>> \o rest
                      ELSE rest

(* ------------------------------------------------------------------------ *)
(* The coverage pipeline: handleProviderAdd in the client, the coverage     *)
(* route, getProviderStateCoverage and buildCoverageGeoJSON in the server   *)
(* ------------------------------------------------------------------------ *)

PROVIDER_COLORS == <<"#4F86F7", "#F85149", "#3FB950", "#E3B341",
                     "#BC8CFF", "#F0883E", "#39D4D4", "#F778BA">>

CoverProviders == {"477"}
CoverTechs     == {"50"}

TileOutcomes ==
    {[kind |-> k, features |-> <<>>] :
        k \in {"rejected", "error", "status", "empty"}}
    \cup {[kind |-> "data", features |-> fs] :
            fs \in {<<HexA>>, <<HexB, HexA>>, <<HexNoKey>>}}

\* the answers of the Socrata state query: a failure, or rows grouped by state
RowCA == [stateabbr |-> "CA", countycode |-> ""]
RowTX == [stateabbr |-> "tx", countycode |-> ""]
RowZZ == [stateabbr |-> "ZZ", countycode |-> ""]

CoverageOutcomes ==
    {[ok |-> FALSE, rows |-> <<>>]} \cup
    {[ok |-> TRUE, rows |-> rows] : rows \in {<<>>, <<RowCA>>, <<RowCA, RowTX>>, <<RowZZ>>}}

\* the answers of the boundary file: a failure, a file of county ids only, or a file
\* that also has ids ending in 000
CountyOutcomes ==
    {[ok |-> FALSE, ids |-> {}],
     [ok |-> TRUE, ids |-> {"6037", "48201"}],
     [ok |-> TRUE, ids |-> {"6000", "6037", "48000"}]}

layerKey(providerId, techCode) == providerId \o ":" \o techCode

coverageKey(providerId, techCode) ==
    "coverage:state:" \o providerId \o ":" \o techCode

\* geojson?.features?.length
featureCount(geojson) == IF geojson = Null THEN 0 ELSE Len(geojson.features)

\* the fallback is taken whatever the hex tier produced
needsFallback_Always(geojson) == TRUE

\* if (!geojson?.features?.length)
needsFallback(geojson) == featureCount(geojson) = 0

\* S is the state the pipeline works on; a is the add in flight.
Cover == [hexCache |-> hexCache, hexStoredAt |-> hexStoredAt, providerOverlays |-> providerOverlays,
          cache |-> cache, countyIndexCache |-> countyIndexCache]

AddWaiting(S, a) == [S |-> S, a |-> a, done |-> FALSE]

\* updateCardCoverage(provider.id, techCode, count, source)
AddReported(S, a, count, source) ==
    [S |-> S, a |-> a, done |-> TRUE, outcome |-> "reported",
     count |-> count, source |-> source]

\* catch (err) { markCardError(...) }
AddFailed(S, a) ==
    [S |-> S, a |-> a, done |-> TRUE, outcome |-> "error", count |-> -1, source |-> ""]

\* await addCoverageOverlay(...): removeCoverageOverlay first, then the import
overlayStart(S, a) ==
    AddWaiting([S EXCEPT !.providerOverlays =
                    MapDelete(@, layerKey(a.providerId, a.techCode))],
               [a EXCEPT !.pc = "overlay"])

\* mapkit.importGeoJSON calls back
overlaySettle(S, a, ok) ==
    IF ~ok THEN AddFailed(S, a)
    ELSE AddReported([S EXCEPT !.providerOverlays =
                          MapSet(@, layerKey(a.providerId, a.techCode),
                                 [overlays |-> featureCount(a.geojson),
                                  visible |-> TRUE])],
                     a, featureCount(a.geojson), a.dataSource)

\* the client has the route's answer: res.ok or not
afterResponse(S, a, res) ==
    IF ~res.ok THEN AddFailed(S, a)
    ELSE LET a1 == [a EXCEPT !.geojson = res.body, !.dataSource = "state",
                             !.stateCount = res.body.meta.stateCount]
         IN  IF featureCount(res.body) = 0
             THEN AddReported(S, a1, 0, "hex")
             ELSE overlayStart(S, a1)

BadGateway == [ok |-> FALSE, body |-> Null]

\* the route answers with the rows it has: res.json(...)
routeRespond(S, a, coverageRows) ==
    IF Len(coverageRows) = 0
    THEN afterResponse(S, a, [ok |-> TRUE,
            body |-> [type |-> "FeatureCollection", features |-> <<>>,
                      meta |-> [stateCount |-> 0]]])
    ELSE LET features == coverageFeatures(coverageRows, S.countyIndexCache)
         IN  afterResponse(S, a, [ok |-> TRUE,
                body |-> [type |-> "FeatureCollection", features |-> features,
                          meta |-> [stateCount |-> Len(features),
                                    dataDate |-> "June 2020"]]])

\* the route has coverageRows: empty answer, or buildCoverageGeoJSON (loadCounties)
afterRows(S, a, coverageRows) ==
    LET a1 == [a EXCEPT !.rowCount = Len(coverageRows), !.rows = coverageRows]
    IN  IF Len(coverageRows) = 0 \/ S.countyIndexCache # Null
        THEN routeRespond(S, a1, coverageRows)
        ELSE AddWaiting(S, [a1 EXCEPT !.pc = "counties"])

\* GET /api/coverage reaches the route: getProviderStateCoverage up to its fetch
routeStart(S, a, t) ==
    LET key == coverageKey(a.providerId, a.techCode)
        S1  == [S EXCEPT !.cache = GetCachedMap(@, key, t)]
    IN  IF CacheMiss(S.cache, key, t)
        THEN AddWaiting(S1, [a EXCEPT !.pc = "socrata"])
        ELSE afterRows(S1, [a EXCEPT !.rowsAge =
                                   t - (S.cache[key].expiresAt - TTL_COVERAGE)],
                       S.cache[key].data)

\* the Socrata fetch of getProviderStateCoverage settles
socrataSettle(S, a, outcome, t) ==
    IF ~outcome.ok THEN afterResponse(S, [a EXCEPT !.tabularFailed = TRUE], BadGateway)
    ELSE afterRows([S EXCEPT !.cache = SetCached(@, coverageKey(a.providerId, a.techCode),
                                                 outcome.rows, TTL_COVERAGE, t)],
                   a, outcome.rows)

\* the fetch of the boundary file in loadCounties settles
countiesSettle(S, a, outcome) ==
    IF ~outcome.ok THEN afterResponse(S, [a EXCEPT !.tabularFailed = TRUE], BadGateway)
    ELSE routeRespond([S EXCEPT !.countyIndexCache = buildIndex(outcome.ids)],
                      a, a.rows)

\* handleProviderAdd after let geojson = await fetchHexCoverage(...)
afterHex(S, a, geojson) ==
    LET a1 == [a EXCEPT !.geojson = geojson, !.dataSource = "hex",
                        !.hexCount = featureCount(geojson)]
    IN  IF needsFallback(geojson)
        THEN AddWaiting(S, [a1 EXCEPT !.pc = "coverage", !.tabularQueried = TRUE])
        ELSE overlayStart(S, a1)

\* fetchHexCoverage up to its tile requests
hexStart(S, a, t) ==
    IF MapHas(S.hexCache, layerKey(a.providerId, a.techCode))
    THEN afterHex(S, [a EXCEPT !.hexAge =
                         t - S.hexStoredAt[layerKey(a.providerId, a.techCode)]],
                  S.hexCache[layerKey(a.providerId, a.techCode)])
    ELSE AddWaiting(S, [a EXCEPT !.pc = "hex"])

\* all tile requests of fetchHexCoverage have settled; tilesFailed remembers how many
\* of them failed (rejected, fetch threw, or answered not 2xx)
hexSettle(S, a, settled, t) ==
    afterHex([S EXCEPT !.hexCache = MapSet(@, layerKey(a.providerId, a.techCode),
                                           hexResult(settled)),
                       !.hexStoredAt = MapSet(@, layerKey(a.providerId, a.techCode), t)],
             [a EXCEPT !.tilesFailed =
                 Cardinality({i \in 1..Len(settled) :
                                 settled[i].kind \in {"rejected", "error", "status"}})],
             hexResult(settled))

InitCover == IdleCache /\ IdleTech /\ IdleName /\ IdleCover /\ IdleScore /\ IdleRest

CoverApply(o, before) ==
    /\ hexCache' = o.S.hexCache
    /\ hexStoredAt' = o.S.hexStoredAt
    /\ providerOverlays' = o.S.providerOverlays
    /\ cache' = o.S.cache
    /\ countyIndexCache' = o.S.countyIndexCache
    /\ IF o.done
       THEN /\ adds' = adds (-) SetToBag({before})
            /\ lastAdd' = [op |-> "done", outcome |-> o.outcome,
                           key |-> layerKey(o.a.providerId, o.a.techCode),
                           count |-> o.count, source |-> o.source,
                           hexCount |-> o.a.hexCount,
                           tabularQueried |-> o.a.tabularQueried,
                           rowCount |-> o.a.rowCount,
                           stateCount |-> o.a.stateCount,
                           tilesFailed |-> o.a.tilesFailed,
                           tabularFailed |-> o.a.tabularFailed,
                           hexAge |-> o.a.hexAge, rowsAge |-> o.a.rowsAge]
       ELSE /\ adds' = (adds (-) SetToBag({before})) (+) SetToBag({o.a})
            /\ UNCHANGED lastAdd
    /\ UNCHANGED <<now, lastOp, techVars, nameVars, scoreVars, pureVars, joinVars, geoVars, otherVars>>

\* handleProviderAdd(provider, techCode), up to the first request it waits for
AddProvider(providerId, techCode) ==
    LET key == layerKey(providerId, techCode)
        idx == IF MapHas(usedColors, key) THEN usedColors[key]
               ELSE colorIndex % Len(PROVIDER_COLORS)
        a   == [pc |-> "start", providerId |-> providerId, techCode |-> techCode,
                geojson |-> Null, dataSource |-> "hex", hexCount |-> -1,
                tabularQueried |-> FALSE, rowCount |-> -1, rows |-> <<>>,
                stateCount |-> -1, tilesFailed |-> 0, tabularFailed |-> FALSE,
                hexAge |-> 0, rowsAge |-> 0]
    IN  IF MapHas(activeProviders, key)
        THEN /\ lastAdd' = [op |-> "already", key |-> key]
             /\ UNCHANGED <<cacheVars, techVars, nameVars, scoreVars, pureVars, joinVars, geoVars, otherVars, hexCache, hexStoredAt, adds,
                            activeProviders, usedColors, colorIndex,
                            providerOverlays, countyIndexCache>>
        ELSE /\ adds = EmptyBag
             /\ colorIndex < MaxAdds
             /\ usedColors' = MapSet(usedColors, key, idx)
             /\ colorIndex' = IF MapHas(usedColors, key) THEN colorIndex
                              ELSE colorIndex + 1
             /\ activeProviders' = MapSet(activeProviders, key,
                    [techCode |-> techCode, colorHex |-> PROVIDER_COLORS[idx + 1],
                     visible |-> TRUE])
             /\ CoverApply(hexStart(Cover, a, now), a)

\* the tile requests of the fetchHexCoverage an add awaits have settled
HexTilesSettle(a, settled) ==
    /\ BagIn(a, adds)
    /\ a.pc = "hex"
    /\ CoverApply(hexSettle(Cover, a, settled, now), a)
    /\ UNCHANGED <<activeProviders, usedColors, colorIndex>>

\* the server takes the add's GET /api/coverage
CoverageRoute(a) ==
    /\ BagIn(a, adds)
    /\ a.pc = "coverage"
    /\ CoverApply(routeStart(Cover, a, now), a)
    /\ UNCHANGED <<activeProviders, usedColors, colorIndex>>

\* the Socrata query of the route settles
CoverageSocrataSettles(a, outcome) ==
    /\ BagIn(a, adds)
    /\ a.pc = "socrata"
    /\ CoverApply(socrataSettle(Cover, a, outcome, now), a)
    /\ UNCHANGED <<activeProviders, usedColors, colorIndex>>

\* the boundary file requested by loadCounties arrives, or fails to
CountiesLoadSettles(a, outcome) ==
    /\ BagIn(a, adds)
    /\ a.pc = "counties"
    /\ CoverApply(countiesSettle(Cover, a, outcome), a)
    /\ UNCHANGED <<activeProviders, usedColors, colorIndex>>

\* the GeoJSON import of addCoverageOverlay calls back
OverlayImportSettles(a, ok) ==
    /\ BagIn(a, adds)
    /\ a.pc = "overlay"
    /\ CoverApply(overlaySettle(Cover, a, ok), a)
    /\ UNCHANGED <<activeProviders, usedColors, colorIndex>>

\* handleRemoveProvider(providerId, techCode) for a layer that is on the map
RemoveProvider(providerId, techCode) ==
    LET key == layerKey(providerId, techCode)
    IN  /\ MapHas(activeProviders, key)
        /\ providerOverlays' = MapDelete(providerOverlays, key)
        /\ usedColors' = MapDelete(usedColors, key)
        /\ activeProviders' = MapDelete(activeProviders, key)
        /\ UNCHANGED <<cacheVars, techVars, nameVars, scoreVars, pureVars, joinVars, geoVars, otherVars, hexCache, hexStoredAt, adds,
                       colorIndex, countyIndexCache, lastAdd>>

NextCover ==
    \/ \E providerId \in CoverProviders, techCode \in CoverTechs :
            AddProvider(providerId, techCode)
    \/ \E a \in BagToSet(adds), settled \in [1..HexTiles -> TileOutcomes] :
            HexTilesSettle(a, settled)
    \/ \E a \in BagToSet(adds) : CoverageRoute(a)
    \/ \E a \in BagToSet(adds), outcome \in CoverageOutcomes :
            CoverageSocrataSettles(a, outcome)
    \/ \E a \in BagToSet(adds), outcome \in CountyOutcomes :
            CountiesLoadSettles(a, outcome)
    \/ \E a \in BagToSet(adds), ok \in BOOLEAN : OverlayImportSettles(a, ok)
    \/ \E providerId \in CoverProviders, techCode \in CoverTechs :
            RemoveProvider(providerId, techCode)
    \/ Tick

SpecCover == InitCover /\ [][NextCover]_vars

AddDone == lastAdd.op = "done"

(* C4: when the hex tier yields zero geometry, the result reported for the  *)
(* add never carries source 'hex' (it is 'state' or 'county'), and no       *)
(* reported result pairs source 'hex' with a zero count, also when the      *)
(* tabular tier yields zero too.                                            *)
C4_ZeroHexNeverHex ==
    (AddDone /\ lastAdd.outcome = "reported") =>
        /\ lastAdd.hexCount = 0 => lastAdd.source \in {"state", "county"}
        /\ ~(lastAdd.source = "hex" /\ lastAdd.count = 0)

(* C5: when the hex tier yields zero geometry and the tabular tier answers, *)
(* the unit count of the answer (meta.stateCount) equals the number of rows *)
(* the tabular query returned.                                              *)
C5_UnitCountIsRowCount ==
    (AddDone /\ lastAdd.hexCount = 0 /\ lastAdd.stateCount # -1) =>
        lastAdd.stateCount = lastAdd.rowCount

(* C6: the tabular tier is queried if and only if the hex tier has produced *)
(* zero features for the add: never before the hex tier has finished, and   *)
(* never when the hex tier produced at least one feature.                   *)
C6_TabularIffHexEmpty ==
    /\ \A a \in BagToSet(adds) : a.tabularQueried <=> a.hexCount = 0
    /\ AddDone => (lastAdd.tabularQueried <=> lastAdd.hexCount = 0)

C6_Witness ==
    /\ AddDone
    /\ lastAdd.outcome = "reported"
    /\ lastAdd.hexCount = 0
    /\ lastAdd.tabularQueried
    /\ lastAdd.source = "state"
    /\ lastAdd.count = 2
    /\ MapHas(hexCache, lastAdd.key)
    /\ hexCache[lastAdd.key] = Null

(* C19: no cached value is served after the TTL of its data class; for the  *)
(* coverage results an add is served, the rows of the server's state        *)
(* coverage cache and the value of the client's hex coverage cache, that is *)
(* 30 minutes after they were stored.                                       *)
C19_NothingServedPastTtl ==
    AddDone =>
        /\ lastAdd.rowsAge <= TTL_COVERAGE
        /\ lastAdd.hexAge <= TTL_COVERAGE

\* the add ended in updateCardCoverage(..., 0, ...): "No coverage data found"
NoCoverageFound == AddDone /\ lastAdd.outcome = "reported" /\ lastAdd.count = 0

(* C15: when the hex tier and the tabular tier both yield zero records the  *)
(* add ends in an explicit empty result, count 0, with no error raised or   *)
(* shown; and that outcome differs from the outcome of an add one of whose  *)
(* fetches failed.                                                          *)
C15_EmptyDistinctFromFailed ==
    AddDone =>
        /\ (lastAdd.hexCount = 0 /\ lastAdd.rowCount = 0) => NoCoverageFound
        /\ (lastAdd.tilesFailed > 0 \/ lastAdd.tabularFailed) => ~NoCoverageFound

(* C16: when the upstream is unreachable and no fallback tier supplies data *)
(* the add ends in the error state (the route answers 502), never in a      *)
(* successful empty result; an add whose tile requests all failed and whose *)
(* tabular tier returned no rows is not reported as "no coverage found".    *)
C16_UnreachableIsError ==
    AddDone =>
        /\ lastAdd.tabularFailed => lastAdd.outcome = "error"
        /\ (lastAdd.tilesFailed = HexTiles /\ lastAdd.rowCount = 0)
              => lastAdd.outcome = "error"

(* ------------------------------------------------------------------------ *)
(* The merge step of fetchHexCoverage alone, over a few tiles of a few      *)
(* features                                                                 *)
(* ------------------------------------------------------------------------ *)

MergeFeatureSet == {HexA, HexA2, HexB, HexNoKey}

\* how the tile requests can have ended: fetchAndDecode rejected, the fetch threw
\* ("error") or was answered not 2xx ("status"), or a list of features was decoded
MergeTileResults ==
    {[kind |-> k, features |-> <<>>] : k \in {"rejected", "error", "status"}} \cup
    {[kind |-> "data", features |-> fs] :
        fs \in UNION {[1..k -> MergeFeatureSet] : k \in 0..MaxTileFeatures}}

InitMerge ==
    /\ mergeIn \in [1..HexTiles -> MergeTileResults]
    /\ mergeOut = NoOp
    /\ probeIn = NoOp
    /\ probeOut = NoOp
    /\ IdleCache /\ IdleTech /\ IdleName /\ IdleCover /\ IdleScore /\ IdleJoin /\ IdleGeo /\ IdleOther

\* the loop of fetchHexCoverage over settled
MergeStep ==
    /\ mergeOut = NoOp
    /\ mergeOut' = [op |-> "merged", acc |-> mergeTiles(mergeIn, mergeStart)]
    /\ UNCHANGED <<mergeIn, probeIn, probeOut, cacheVars, techVars, nameVars,
                   coverVars, scoreVars, joinVars, geoVars, otherVars>>

NextMerge == MergeStep

SpecMerge == InitMerge /\ [][NextMerge]_vars

\* the features of the fulfilled tiles, in tile order
RECURSIVE Flatten(_)
Flatten(settled) ==
    IF settled = <<>> THEN <<>>
    ELSE (IF Head(settled).kind = "rejected" THEN <<>> ELSE Head(settled).features)
            \o Flatten(Tail(settled))

Merged == mergeOut.op = "merged"

(* C11: the merged output has exactly one record per distinct dedupe key of *)
(* the input, that record is the first one with that key in tile order, and *)
(* no two records of the output share a dedupe key.                         *)
C11_OnePerKeyFirstSeen ==
    Merged =>
        LET all == Flatten(mergeIn)
            out == mergeOut.acc.features
        IN  /\ \A i, j \in 1..Len(out) :
                  i # j => dedupeKey(out[i]) # dedupeKey(out[j])
            /\ {dedupeKey(out[i]) : i \in 1..Len(out)}
                  = {dedupeKey(all[i]) : i \in 1..Len(all)} \ {""}
            /\ \A i \in 1..Len(out) :
                  \E k \in 1..Len(all) :
                      /\ all[k] = out[i]
                      /\ \A m \in 1..(k - 1) : dedupeKey(all[m]) # dedupeKey(out[i])
            /\ \A i, j \in 1..Len(out) :
                  i < j =>
                      \E k, m \in 1..Len(all) :
                          k < m /\ all[k] = out[i] /\ all[m] = out[j]

C11_Witness ==
    /\ Merged
    /\ mergeIn[1].features = <<HexA2, HexB>>
    /\ mergeIn[2].features = <<HexB, HexA>>
    /\ mergeOut.acc.features = <<HexA2, HexB>>

FailedTiles == {i \in 1..Len(mergeIn) : mergeIn[i].kind \in {"rejected", "error", "status"}}

(* C14: a failed tile request does not abort the batch: the other tiles are *)
(* merged, the failed tile contributes no feature, and it is counted in the *)
(* errored count, not as an empty tile.                                     *)
C14_FailedTileCountedErrored ==
    Merged =>
        /\ mergeOut.acc.features
              = mergeTiles([i \in 1..Len(mergeIn) |->
                              IF i \in FailedTiles
                              THEN [kind |-> "data", features |-> <<>>]
                              ELSE mergeIn[i]], mergeStart).features
        /\ mergeOut.acc.tilesErrored = Cardinality(FailedTiles)
        /\ mergeOut.acc.tilesEmpty
              = Cardinality({i \in 1..Len(mergeIn) :
                                i \notin FailedTiles /\ mergeIn[i].features = <<>>})

(* ------------------------------------------------------------------------ *)
(* The fan-out of probeTechs alone, over rows of eight tile outcomes        *)
(* ------------------------------------------------------------------------ *)

ProbeKinds == {"data", "empty", "status", "error", "timeout"}

\* the eight outcomes of one technology's tile requests
ProbeRows ==
    {[tile \in 1..Len(PROBE_TILES) |-> k] : k \in ProbeKinds \ {"data"}} \cup
    {[tile \in 1..Len(PROBE_TILES) |-> IF tile = 1 THEN "data" ELSE "error"],
     [tile \in 1..Len(PROBE_TILES) |-> IF tile = 8 THEN "data" ELSE "status"],
     [tile \in 1..Len(PROBE_TILES) |-> IF tile = 4 THEN "data" ELSE "empty"],
     [tile \in 1..Len(PROBE_TILES) |->
         IF tile % 3 = 0 THEN "timeout" ELSE IF tile % 3 = 1 THEN "status" ELSE "empty"]}

InitProbe ==
    /\ \E rows \in [Range(PROBE_TECHS) -> ProbeRows] :
          probeIn = [tech \in Range(PROBE_TECHS), tile \in 1..Len(PROBE_TILES) |->
                        rows[tech][tile]]
    /\ probeOut = NoOp
    /\ mergeIn = <<>>
    /\ mergeOut = NoOp
    /\ IdleCache /\ IdleTech /\ IdleName /\ IdleCover /\ IdleScore /\ IdleJoin /\ IdleGeo /\ IdleOther

\* probeTechs on a cache miss, up to the sorted list
ProbeStep ==
    /\ probeOut = NoOp
    /\ probeOut' = [op |-> "probed", result |-> probeJoin(probeIn)]
    /\ UNCHANGED <<probeIn, mergeIn, mergeOut, cacheVars, techVars, nameVars,
                   coverVars, scoreVars, joinVars, geoVars, otherVars>>

NextProbe == ProbeStep

SpecProbe == InitProbe /\ [][NextProbe]_vars

Probed == probeOut.op = "probed"

(* C12: a technology code is in probeTechs' result if and only if at least  *)
(* one of the eight tile requests for that code came back 2xx with a body   *)
(* that is not empty; one such tile is enough, and a tile of one code never *)
(* adds another code.                                                       *)
C12_TechIffDataTile ==
    (Probed /\ probeOut.result.kind = "returned") =>
        \A tech \in Range(PROBE_TECHS) :
            (tech \in Range(probeOut.result.techs))
                <=> (\E tile \in 1..Len(PROBE_TILES) : probeIn[tech, tile] = "data")

C12_Witness ==
    /\ Probed
    /\ probeOut.result.techs = <<"50">>
    /\ Cardinality({tile \in 1..Len(PROBE_TILES) : probeIn["50", tile] = "data"}) = 1
    /\ \E tile \in 1..Len(PROBE_TILES) : probeIn["40", tile] = "empty"

ProbeFailures == {"status", "error", "timeout"}

\* the matrix with every failed request read as an answer without a body
Quiet(matrix) ==
    [c \in DOMAIN matrix |-> IF matrix[c] \in ProbeFailures THEN "empty" ELSE matrix[c]]

(* C13: a failed probe request (network error, timeout, non-2xx answer)     *)
(* counts as no evidence and nothing more: probeTechs returns, it never     *)
(* rejects, and its result is the one the other requests' outcomes give.    *)
C13_FailureIsNoEvidence ==
    Probed =>
        /\ probeOut.result.kind = "returned"
        /\ probeOut.result = probeJoin(Quiet(probeIn))
        /\ \A tech \in Range(probeOut.result.techs) :
              \E tile \in 1..Len(PROBE_TILES) : probeIn[tech, tile] = "data"

C13_Witness ==
    /\ Probed
    /\ probeOut.result.kind = "returned"
    /\ probeOut.result.techs = <<"10", "70">>
    /\ \E tile \in 1..Len(PROBE_TILES) : probeIn["10", tile] = "error"
    /\ \E tile \in 1..Len(PROBE_TILES) : probeIn["40", tile] = "timeout"
    /\ \E tile \in 1..Len(PROBE_TILES) : probeIn["70", tile] = "status"

(* ------------------------------------------------------------------------ *)
(* The fan-outs of probeTechs and fetchHexCoverage, request by request      *)
(* ------------------------------------------------------------------------ *)

\* for (x = minX..maxX) for (y = minY..maxY) tiles.push({ x, y })
getUsTiles(minX, maxX, minY, maxY) ==
    LET h == maxY - minY + 1
    IN  [k \in 1..((maxX - minX + 1) * h) |->
            [x |-> minX + ((k - 1) \div h), y |-> minY + ((k - 1) % h)]]

\* the requests of one fetchHexCoverage call: a grid of two columns
hexRequests == getUsTiles(0, 1, 0, FanTiles - 1)

\* the requests of one probeTechs call: PROBE_TECHS.map(tech => PROBE_TILES.map(...)),
\* over the first two technologies and the first FanTiles sample tiles
probeRequests ==
    [k \in 1..(2 * FanTiles) |->
        [tech |-> PROBE_TECHS[((k - 1) \div FanTiles) + 1],
         tile |-> PROBE_TILES[((k - 1) % FanTiles) + 1]]]

subRequests(kind) == IF kind = "probe" THEN probeRequests ELSE hexRequests

\* how one sub-request can end
SubOutcomes(kind) ==
    IF kind = "probe" THEN {"data", "status", "timeout"} ELSE {"data", "error", "rejected"}

\* the promise of a sub-request: pending until the request ends, then what the
\* async function around the fetch makes of it
promiseOf(kind, r) ==
    IF r.state = "pending" THEN "pending"
    ELSE IF kind = "probe" THEN probeRequest(r.state).status
    ELSE IF r.state = "rejected" THEN "rejected" ELSE "fulfilled"

\* Promise.all(promises) has settled: all fulfilled, or one rejected
allDone(promises) ==
    \/ \A i \in DOMAIN promises : promises[i] = "fulfilled"
    \/ \E i \in DOMAIN promises : promises[i] = "rejected"

\* a join that gives up at the first rejection
allSettledDone_FirstRejection(promises) ==
    \/ \A i \in DOMAIN promises : promises[i] # "pending"
    \/ \E i \in DOMAIN promises : promises[i] = "rejected"

\* Promise.allSettled(promises) has settled: none is pending
allSettledDone(promises) == \A i \in DOMAIN promises : promises[i] # "pending"

\* the await of the call can continue
joinReady(kind, req) ==
    LET promises == [i \in DOMAIN req |-> promiseOf(kind, req[i])]
    IN  IF kind = "probe" THEN allDone(promises) ELSE allSettledDone(promises)

\* a request that is sent again after it failed
subSettle_Retry(r, outcome) ==
    IF outcome # "data" /\ r.issued < 2
    THEN [r EXCEPT !.issued = @ + 1]
    ELSE [r EXCEPT !.state = outcome]

\* the fetch of one sub-request ends: return false / return [] / return the data
subSettle(r, outcome) == [r EXCEPT !.state = outcome]

InitJoin ==
    /\ fan = NoOp
    /\ IdleCache /\ IdleTech /\ IdleName /\ IdleCover /\ IdleScore /\ IdlePure /\ IdleGeo /\ IdleOther

\* probeTechs / fetchHexCoverage on a cache miss: every request is sent at once
JoinCall(kind) ==
    /\ fan.op \in {"none", "returned"}
    /\ fan' = [op |-> "waiting", kind |-> kind,
               req |-> [i \in DOMAIN subRequests(kind) |->
                           [issued |-> 1, state |-> "pending"]]]
    /\ UNCHANGED <<cacheVars, techVars, nameVars, coverVars, scoreVars, pureVars, geoVars, otherVars>>

\* sub-request i ends
SubSettles(i, outcome) ==
    /\ fan.op \in {"waiting", "returned"}
    /\ i \in DOMAIN fan.req
    /\ outcome \in SubOutcomes(fan.kind)
    /\ fan.req[i].state = "pending"
    /\ fan' = [fan EXCEPT !.req[i] = subSettle(@, outcome)]
    /\ UNCHANGED <<cacheVars, techVars, nameVars, coverVars, scoreVars, pureVars, geoVars, otherVars>>

\* the await on Promise.all / Promise.allSettled continues and the call returns
JoinReturns ==
    /\ fan.op = "waiting"
    /\ joinReady(fan.kind, fan.req)
    /\ fan' = [fan EXCEPT !.op = "returned"]
    /\ UNCHANGED <<cacheVars, techVars, nameVars, coverVars, scoreVars, pureVars, geoVars, otherVars>>

NextJoin ==
    \/ \E kind \in {"probe", "hex"} : JoinCall(kind)
    \/ \E i \in 1..(2 * FanTiles), outcome \in {"data", "status", "timeout", "error",
                                              "rejected"} : SubSettles(i, outcome)
    \/ JoinReturns

SpecJoin == InitJoin /\ [][NextJoin]_vars

\* every sub-request ends (answer, failure or timeout) and the awaiting call is resumed
SpecJoinLive ==
    /\ SpecJoin
    /\ \A i \in 1..(2 * FanTiles) :
          WF_vars(\E outcome \in {"data", "status", "timeout", "error", "rejected"} :
                      SubSettles(i, outcome))
    /\ WF_vars(JoinReturns)

JoinWaiting == fan.op = "waiting"
JoinReturned == fan.op = "returned"

(* C17: a call to probeTechs or to fetchHexCoverage always returns, given   *)
(* that each of its sub-requests ends, and it returns only when every one   *)
(* of its sub-requests has ended, never at the first failure.               *)
C17_JoinsOnAll ==
    /\ [](JoinReturned => \A i \in DOMAIN fan.req : fan.req[i].state # "pending")
    /\ (JoinWaiting ~> JoinReturned)

C17_Witness ==
    /\ JoinReturned
    /\ fan.kind = "hex"
    /\ fan.req[1].state = "rejected"
    /\ fan.req[2].state = "error"
    /\ fan.req[Len(fan.req)].state = "data"

\* how many times descriptor d has been requested in the call
RECURSIVE TimesIssued(_, _, _)
TimesIssued(subs, req, d) ==
    IF subs = <<>> THEN 0
    ELSE (IF Head(subs) = d THEN Head(req).issued ELSE 0)
            + TimesIssued(Tail(subs), Tail(req), d)

(* C18: nothing is requested twice: in a probeTechs call each (technology,  *)
(* sample tile) pair, and in a fetchHexCoverage call each tile of the grid, *)
(* is requested exactly once, and a request that failed is not sent again.  *)
C18_EachRequestedOnce ==
    fan.op \in {"waiting", "returned"} =>
        /\ fan.kind = "probe" =>
              \A t \in 1..2, n \in 1..FanTiles :
                  TimesIssued(probeRequests, fan.req,
                              [tech |-> PROBE_TECHS[t], tile |-> PROBE_TILES[n]]) = 1
        /\ fan.kind = "hex" =>
              \A x \in 0..1, y \in 0..(FanTiles - 1) :
                  TimesIssued(hexRequests, fan.req, [x |-> x, y |-> y]) = 1

C18_Witness ==
    /\ JoinReturned
    /\ fan.kind = "probe"
    /\ fan.req[1].state = "timeout"
    /\ fan.req[2].state = "status"
    /\ \A i \in DOMAIN fan.req : fan.req[i].issued = 1

(* ------------------------------------------------------------------------ *)
(* loadCounties under overlapping getAllCounties / buildCoverageGeoJSON     *)
(* ------------------------------------------------------------------------ *)

InitCounties ==
    /\ IdleGeo /\ IdleOther
    /\ IdleCache /\ IdleTech /\ IdleName /\ IdleCover /\ IdleScore /\ IdlePure /\ IdleJoin

OtherThanCounties ==
    <<cacheVars, techVars, nameVars, scoreVars, pureVars, joinVars, otherVars, hexCache,
      hexStoredAt, adds, activeProviders, usedColors, colorIndex, providerOverlays,
      lastAdd>>

\* getAllCounties() / buildCoverageGeoJSON(rows) enter loadCounties:
\* if (countyGeoJSONCache) return it; else await import('topojson-client')
LoadCall(fn) ==
    /\ countyLoads.calls < MaxLoads
    /\ countyLoads' = [countyLoads EXCEPT !.calls = @ + 1]
    /\ loads' = IF countyGeoJSONCache # Null THEN loads
                ELSE loads (+) SetToBag({[fn |-> fn, pc |-> "import"]})
    /\ UNCHANGED <<countyGeoJSONCache, countyIndexCache, OtherThanCounties>>

\* the dynamic import resolves and the call sends fetch(COUNTIES_URL)
LoadFetches(l) ==
    /\ BagIn(l, loads)
    /\ l.pc = "import"
    /\ loads' = (loads (-) SetToBag({l})) (+) SetToBag({[l EXCEPT !.pc = "fetch"]})
    /\ countyLoads' = [countyLoads EXCEPT
                          !.issued = @ + 1,
                          !.late = IF countyGeoJSONCache # Null THEN @ + 1 ELSE @]
    /\ UNCHANGED <<countyGeoJSONCache, countyIndexCache, OtherThanCounties>>

\* the fetch settles: throw on a failure, else set the cache and build the index
LoadSettles(l, outcome) ==
    /\ BagIn(l, loads)
    /\ l.pc = "fetch"
    /\ loads' = loads (-) SetToBag({l})
    /\ IF outcome.ok
       THEN /\ countyGeoJSONCache' = [type |-> "FeatureCollection", ids |-> outcome.ids]
            /\ countyIndexCache' = buildIndex(outcome.ids)
            /\ countyLoads' = [countyLoads EXCEPT !.loaded = @ + 1]
       ELSE UNCHANGED <<countyGeoJSONCache, countyIndexCache, countyLoads>>
    /\ UNCHANGED OtherThanCounties

NextCounties ==
    \/ \E fn \in {"getAllCounties", "buildCoverageGeoJSON"} : LoadCall(fn)
    \/ \E l \in BagToSet(loads) : LoadFetches(l)
    \/ \E l \in BagToSet(loads), outcome \in CountyOutcomes : LoadSettles(l, outcome)

SpecCounties == InitCounties /\ [][NextCounties]_vars

(* C20: the boundary dataset is loaded once per process, whatever the order *)
(* and overlap of getAllCounties and buildCoverageGeoJSON calls: the file   *)
(* is loaded at most once, no fetch of it is sent once a load has           *)
(* succeeded, and the FIPS index is there whenever the dataset cache is set.*)
C20_LoadedOnce ==
    /\ countyLoads.loaded <= 1
    /\ countyLoads.late = 0
    /\ countyGeoJSONCache # Null => countyIndexCache # Null

(* ------------------------------------------------------------------------ *)
(* fcc.js: searchProviders, getProviderTechnologies, getProviderStateCoverage*)
(* ------------------------------------------------------------------------ *)

\* `providers:search:${query.toLowerCase()}:${limit}`
searchKey(query, limit) ==
    "providers:search:" \o toLowerCase(query) \o ":" \o ToString(limit)

\* .slice(0, limit)
slice(seq, limit) ==
    SubSeq(seq, 1, IF limit < 0 THEN Len(seq) + limit
                   ELSE IF Len(seq) < limit THEN Len(seq) ELSE limit)

\* a search that hands on every BDC row
bdcProviders_NoSlice(rows, limit) ==
    [i \in 1..Len(rows) |->
        [id |-> ToString(rows[i].provider_id), name |-> rows[i].provider_name]]

\* rows.slice(0, limit).map(r => ({ id: String(r.provider_id), name: r.provider_name }))
bdcProviders(rows, limit) ==
    [i \in 1..Len(slice(rows, limit)) |->
        [id |-> ToString(rows[i].provider_id), name |-> rows[i].provider_name]]

\* data.filter(r => r.provider_id && !seen.has(r.provider_id)): "" is a missing id
RECURSIVE uniqueProviders(_)
uniqueProviders(data) ==
    IF data = <<>> THEN <<>>
    ELSE LET init == uniqueProviders(SubSeq(data, 1, Len(data) - 1))
             r    == data[Len(data)]
         IN  IF r.provider_id = "" \/ r.provider_id \in {x.provider_id : x \in Range(init)}
             THEN init
             ELSE Append(init, r)

\* ....slice(0, limit).map(r => ({ id: r.provider_id, name: r.providername }))
socrataProviders(data, limit) ==
    LET kept == slice(uniqueProviders(data), limit)
    IN  [i \in 1..Len(kept) |-> [id |-> kept[i].provider_id, name |-> kept[i].providername]]

BdcRowA == [provider_id |-> 130077, provider_name |-> "Acme Fiber"]
BdcRowB == [provider_id |-> 130403, provider_name |-> "Acme Telephone"]
SocRowA == [provider_id |-> "477", providername |-> "Acme"]
SocRowNoId == [provider_id |-> "", providername |-> "Acme"]

\* what bdcFetch can do: throw (network, timeout, not 2xx, status not successful), or rows
BdcOutcomes ==
    {[ok |-> FALSE, rows |-> <<>>]} \cup
    {[ok |-> TRUE, rows |-> rows] : rows \in {<<>>, <<BdcRowA, BdcRowB>>}}

\* what socrataFetch can do for the search
SocrataSearchOutcomes ==
    {[ok |-> FALSE, rows |-> <<>>]} \cup
    {[ok |-> TRUE, rows |-> rows] : rows \in {<<>>, <<SocRowNoId, SocRowA, SocRowA>>}}

FccQueries == {"Acme"}
FccLimits == {1}
FccProviderIds == {"477"}
FccTechCodes == {"50"}

InitFcc ==
    /\ IdleFcc
    /\ IdleCache /\ IdleTech /\ IdleName /\ IdleCover /\ IdleScore
    /\ IdlePure /\ IdleJoin /\ IdleGeo /\ IdleFn /\ IdlePanel /\ IdleLayers /\ IdleExtra

OtherThanFcc ==
    <<now, lastOp, techVars, nameVars, coverVars, scoreVars, pureVars, joinVars, geoVars,
      fnVars, panelVars, layerVars, extraVars>>

\* the call c ends: it returns value, or it throws
FccEnds(c, outcome, value, cacheAfter) ==
    /\ cache' = cacheAfter
    /\ lastFcc' = [op |-> "done", fn |-> c.fn, key |-> c.key, outcome |-> outcome,
                   value |-> value, evicted |-> c.evicted, bdc |-> c.bdc,
                   socrataQueried |-> c.socrataQueried, socrata |-> c.socrata,
                   limit |-> c.limit,
                   changed |-> cacheAfter # cache,
                   stored |-> IF MapHas(cacheAfter, c.key) THEN cacheAfter[c.key].data
                              ELSE Null,
                   othersKept |-> MapDelete(cacheAfter, c.key) = MapDelete(cache, c.key)]

\* an exported function is called: const cached = getCached(key); if (cached) return
FccCall(fn, key, limit) ==
    /\ fccCalls = EmptyBag
    /\ LET c == [fn |-> fn, key |-> key, limit |-> limit,
                 pc |-> IF fn = "searchProviders" THEN "bdc" ELSE "socrata",
                 evicted |-> MapHas(cache, key) /\ CacheMiss(cache, key, now),
                 bdc |-> [ok |-> FALSE, rows |-> <<>>, asked |-> FALSE],
                 socrataQueried |-> fn # "searchProviders",
                 socrata |-> [ok |-> FALSE, rows |-> <<>>]]
       IN  IF CacheMiss(cache, key, now)
           THEN /\ cache' = GetCachedMap(cache, key, now)
                /\ fccCalls' = SetToBag({c})
                /\ UNCHANGED lastFcc
           ELSE /\ FccEnds([c EXCEPT !.socrataQueried = FALSE], "returned",
                           GetCachedValue(cache, key, now),
                           GetCachedMap(cache, key, now))
                /\ UNCHANGED fccCalls
    /\ UNCHANGED OtherThanFcc

\* searchProviders: bdcFetch settles
BdcSettles(c, outcome) ==
    /\ BagIn(c, fccCalls)
    /\ c.pc = "bdc"
    /\ LET c1 == [c EXCEPT !.bdc = [ok |-> outcome.ok, rows |-> outcome.rows,
                                    asked |-> TRUE]]
           providers == bdcProviders(outcome.rows, c.limit)
       IN  IF outcome.ok /\ Len(providers) > 0
           THEN /\ FccEnds(c1, "returned", providers,
                           SetCached(cache, c.key, providers, TTL_SEARCH, now))
                /\ fccCalls' = EmptyBag
           ELSE /\ fccCalls' = SetToBag({[c1 EXCEPT !.pc = "socrata",
                                                    !.socrataQueried = TRUE]})
                /\ UNCHANGED <<cache, lastFcc>>
    /\ UNCHANGED OtherThanFcc

\* what the function makes of the rows socrataFetch returned
fccResult(c, rows) ==
    IF c.fn = "searchProviders" THEN socrataProviders(rows, c.limit)
    ELSE IF c.fn = "getProviderTechnologies" THEN uniqueTechs(rows)
    ELSE rows

\* the ttlMs of the function's setCached
fccTtl(fn) ==
    IF fn = "getProviderStateCoverage" THEN TTL_COVERAGE
    ELSE IF fn = "getProviderTechnologies" THEN TTL_TECH ELSE TTL_SEARCH

\* a failed fetch that leaves an empty answer in the cache
fccStore_OnFailure(c, ok, rows, map, t) ==
    SetCached(map, c.key, IF ok THEN fccResult(c, rows) ELSE <<>>, fccTtl(c.fn), t)

\* const data = await socrataFetch(url); ...; setCached(key, ..., ttl): the throw of
\* socrataFetch leaves the function before setCached
fccStore(c, ok, rows, map, t) ==
    IF ok THEN SetCached(map, c.key, fccResult(c, rows), fccTtl(c.fn), t) ELSE map

\* socrataFetch settles
SocrataSettles(c, outcome) ==
    /\ BagIn(c, fccCalls)
    /\ c.pc = "socrata"
    /\ outcome \in (IF c.fn = "searchProviders" THEN SocrataSearchOutcomes
                    ELSE IF c.fn = "getProviderTechnologies" THEN TabularOutcomes
                    ELSE CoverageOutcomes)
    /\ FccEnds([c EXCEPT !.socrata = outcome],
               IF outcome.ok THEN "returned" ELSE "thrown",
               IF outcome.ok THEN fccResult(c, outcome.rows) ELSE <<>>,
               fccStore(c, outcome.ok, outcome.rows, cache, now))
    /\ fccCalls' = EmptyBag
    /\ UNCHANGED OtherThanFcc

NextFcc ==
    \/ \E q \in FccQueries, limit \in FccLimits :
            FccCall("searchProviders", searchKey(q, limit), limit)
    \/ \E id \in FccProviderIds : FccCall("getProviderTechnologies", techKey(id), 0)
    \/ \E id \in FccProviderIds, tech \in FccTechCodes :
            FccCall("getProviderStateCoverage", coverageKey(id, tech), 0)
    \/ \E c \in BagToSet(fccCalls), outcome \in BdcOutcomes : BdcSettles(c, outcome)
    \/ \E c \in BagToSet(fccCalls),
          outcome \in SocrataSearchOutcomes \cup TabularOutcomes \cup CoverageOutcomes :
            SocrataSettles(c, outcome)
    \/ Tick

SpecFcc == InitFcc /\ [][NextFcc]_vars

FccDone == lastFcc.op = "done"

\* C21 as stated: a failed call leaves the cache exactly as it was
C21_FailureLeavesCacheAsItWas ==
    (FccDone /\ lastFcc.outcome = "thrown") => (~lastFcc.changed /\ ~lastFcc.evicted)

(* C21: a cache entry is created only by a fetch that succeeded for its key.*)
(* When the upstream call of searchProviders, getProviderTechnologies or    *)
(* getProviderStateCoverage fails, the function throws, it adds and changes *)
(* no entry, and the only entry it may have removed is the expired entry of *)
(* its own key, evicted by getCached before the fetch.                      *)
C21_OnlySuccessCreates ==
    /\ (FccDone /\ lastFcc.outcome = "thrown") => ~lastFcc.changed
    /\ (FccDone /\ lastFcc.changed) =>
          /\ lastFcc.outcome = "returned"
          /\ lastFcc.socrataQueried \/ (lastFcc.bdc.asked /\ lastFcc.bdc.ok)
          /\ lastFcc.stored = lastFcc.value
          /\ lastFcc.othersKept

C21_Witness ==
    /\ FccDone
    /\ lastFcc.outcome = "thrown"
    /\ lastFcc.fn = "getProviderStateCoverage"
    /\ lastFcc.evicted
    /\ MapHas(cache, techKey("477"))

SearchDone == FccDone /\ lastFcc.fn = "searchProviders"

\* the BDC rows as the search hands them on: the first limit of them, in order
BdcAnswer ==
    /\ Len(lastFcc.value) =
          (IF Len(lastFcc.bdc.rows) < lastFcc.limit THEN Len(lastFcc.bdc.rows)
           ELSE lastFcc.limit)
    /\ \A i \in 1..Len(lastFcc.value) :
          lastFcc.value[i] = [id |-> ToString(lastFcc.bdc.rows[i].provider_id),
                              name |-> lastFcc.bdc.rows[i].provider_name]

Payload(byteLength, parses, hasLayer, records) ==
    [byteLength |-> byteLength, parses |-> parses, hasLayer |-> hasLayer,
     records |-> records]

GoodRecord(f) == [converts |-> TRUE, feature |-> f]
BadRecord == [converts |-> FALSE, feature |-> HexNoKey]

\* a loop without the inner try: the first record that fails ends it
RECURSIVE decodeRecords_StopAtBad(_)
decodeRecords_StopAtBad(records) ==
    IF records = <<>> \/ ~Head(records).converts THEN <<>>
    ELSE <<Head(records).feature>> \o decodeRecords_StopAtBad(Tail(records))

\* for (i...) { try { features.push(layer.feature(i).toGeoJSON(x, y, z)) } catch {} }
RECURSIVE decodeRecords(_)
decodeRecords(records) ==
    IF records = <<>> THEN <<>>
    ELSE (IF Head(records).converts THEN <<Head(records).feature>> ELSE <<>>)
            \o decodeRecords(Tail(records))

\* a decoder whose constructor call is not inside the try
decodePbf_NoCatch(buffer) ==
    IF ~buffer.parses THEN [threw |-> TRUE, value |-> <<>>]
    ELSE IF ~buffer.hasLayer THEN [threw |-> FALSE, value |-> <<>>]
    ELSE [threw |-> FALSE, value |-> decodeRecords(buffer.records)]

\* decodePbf: try { tile = new VectorTile(...); if (!layer) return []; ... return
\* features } catch { return [] }
decodePbf(buffer) ==
    IF ~buffer.parses THEN [threw |-> FALSE, value |-> <<>>]
    ELSE IF ~buffer.hasLayer THEN [threw |-> FALSE, value |-> <<>>]
    ELSE [threw |-> FALSE, value |-> decodeRecords(buffer.records)]

\* fetchAndDecode once the body is read:
\* if (!buffer || buffer.byteLength === 0) return []; return decodePbf(buffer, z, x, y)
decodeBuffer(buffer) ==
    IF buffer.byteLength = 0 THEN [threw |-> FALSE, value |-> <<>>] ELSE decodePbf(buffer)

\* the element of settled that Promise.allSettled makes of the tile's promise
settledTile(res) ==
    IF res.threw THEN [kind |-> "rejected", features |-> <<>>]
    ELSE [kind |-> "data", features |-> res.value]

RecordLists ==
    UNION {[1..k -> {GoodRecord(HexA), GoodRecord(HexB), BadRecord}] :
              k \in 0..MaxTileFeatures}

Payloads ==
    {Payload(0, FALSE, FALSE, <<>>), Payload(3, FALSE, FALSE, <<>>),
     Payload(3, TRUE, FALSE, <<>>)}
    \cup {Payload(3, TRUE, TRUE, records) : records \in RecordLists}

\* what the call's other tile decoded to
OtherTiles == {<<>>, <<HexB, HexA>>}

DecodeInputs ==
    {[fn |-> "decodePbf", buffer |-> b, rest |-> o] : b \in Payloads, o \in OtherTiles}

RowLA == [stateabbr |-> "CA", countycode |-> "37"]
RowHarris == [stateabbr |-> "tx", countycode |-> "201"]
RowNoCounty == [stateabbr |-> "CA", countycode |-> "999"]
RowNoState == [stateabbr |-> "", countycode |-> "37"]

CoverageRowLists ==
    UNION {[1..k -> {RowCA, RowZZ, RowLA, RowHarris, RowNoCounty, RowNoState}] :
              k \in 0..MaxRows}

\* the ids of the boundary file the index was built from
BuildInputs ==
    {[fn |-> "buildCoverageGeoJSON", rows |-> rows, ids |-> o.ids] :
        rows \in CoverageRowLists, o \in {c \in CountyOutcomes : c.ok}}

\* features with no identifier, with an empty identifier, and with no geometry
HexCoordOnly == [hasH3 |-> FALSE, h3index |-> "", hasCoord |-> TRUE,
                 coord |-> <<-12241938, 3777493>>]
HexEmptyId == [hasH3 |-> TRUE, h3index |-> "", hasCoord |-> TRUE,
               coord |-> <<-12231870, 3781230>>]
HexIdOnly == [hasH3 |-> TRUE, h3index |-> "8528347bfffffff", hasCoord |-> FALSE,
              coord |-> <<0, 0>>]

KeyInputs ==
    {[fn |-> "dedupeKey", f |-> f] :
        f \in {HexA, HexB, HexNoKey, HexCoordOnly, HexEmptyId, HexIdOnly}}

FnInputs == DecodeInputs \cup BuildInputs \cup KeyInputs

InitFn ==
    /\ fnIn \in FnInputs
    /\ fnOut = NoOp
    /\ IdleCache /\ IdleTech /\ IdleName /\ IdleCover /\ IdleScore
    /\ IdlePure /\ IdleJoin /\ IdleGeo /\ IdleFcc /\ IdlePanel /\ IdleLayers /\ IdleExtra

OtherThanFn ==
    <<cacheVars, techVars, nameVars, coverVars, scoreVars, pureVars, joinVars, geoVars,
      fccVars, panelVars, layerVars, extraVars>>

\* fetchAndDecode on a fetched payload, and the fetchHexCoverage result around it
DecodeStep ==
    /\ fnIn.fn = "decodePbf"
    /\ fnOut = NoOp
    /\ LET res == decodeBuffer(fnIn.buffer)
       IN  fnOut' = [op |-> "decoded", res |-> res,
                     hex |-> hexResult(<<settledTile(res),
                                         [kind |-> "data", features |-> fnIn.rest]>>)]
    /\ UNCHANGED <<fnIn, OtherThanFn>>

\* buildCoverageGeoJSON(coverageRows) with the boundary file loaded
BuildStep ==
    /\ fnIn.fn = "buildCoverageGeoJSON"
    /\ fnOut = NoOp
    /\ fnOut' = [op |-> "built", threw |-> FALSE,
                 value |-> [type |-> "FeatureCollection",
                            features |-> coverageFeatures(fnIn.rows, buildIndex(fnIn.ids))]]
    /\ UNCHANGED <<fnIn, OtherThanFn>>

\* the body of fetchHexCoverage's inner loop for one feature of one tile
KeyStep ==
    /\ fnIn.fn = "dedupeKey"
    /\ fnOut = NoOp
    /\ fnOut' = [op |-> "keyed", dk |-> dedupeKey(fnIn.f),
                 features |-> mergeFeatures(<<fnIn.f>>, mergeStart).features]
    /\ UNCHANGED <<fnIn, OtherThanFn>>

NextFn == DecodeStep \/ BuildStep \/ KeyStep

SpecFn == InitFn /\ [][NextFn]_vars

Decoded == fnOut.op = "decoded"

(* C22: a payload of length zero and a malformed payload decode to an empty *)
(* feature list without a throw: fetchAndDecode / decodePbf resolve to []   *)
(* for it, and the fetchHexCoverage call around it has the result its other *)
(* tiles give.                                                              *)
C22_BadPayloadDecodesEmpty ==
    (Decoded /\ (fnIn.buffer.byteLength = 0 \/ ~fnIn.buffer.parses)) =>
        /\ ~fnOut.res.threw
        /\ fnOut.res.value = <<>>
        /\ fnOut.hex = hexResult(<<[kind |-> "data", features |-> fnIn.rest]>>)

C22_Witness ==
    /\ Decoded
    /\ fnIn.buffer.byteLength = 3
    /\ ~fnIn.buffer.parses
    /\ fnOut.res.value = <<>>
    /\ fnOut.hex # Null

Built == fnOut.op = "built"
Keyed == fnOut.op = "keyed"

\* the code the row composes, "" when its state is not known
composedCode(row) ==
    IF toUpperCase(row.stateabbr) \in DOMAIN STATE_FIPS
    THEN STATE_FIPS[toUpperCase(row.stateabbr)] \o padStart(row.countycode, 3, "0")
    ELSE ""

\* the row has a known state and a boundary in the file
RowMatches(row, ids) == composedCode(row) \in {padStart(id, 5, "0") : id \in ids}

(* C23: one malformed record is skipped and the rest is kept: decodePbf     *)
(* returns every feature of the tile that converts, in order, and           *)
(* buildCoverageGeoJSON returns the features of all rows but those with an  *)
(* unknown state or no boundary; neither throws.                            *)
C23_BadRecordSkipped ==
    /\ (Decoded /\ fnIn.buffer.byteLength > 0 /\ fnIn.buffer.parses
            /\ fnIn.buffer.hasLayer) =>
          LET good == SelectSeq(fnIn.buffer.records, LAMBDA r : r.converts)
          IN  /\ ~fnOut.res.threw
              /\ fnOut.res.value = [i \in 1..Len(good) |-> good[i].feature]
    /\ Built =>
          LET good == SelectSeq(fnIn.rows, LAMBDA r : RowMatches(r, fnIn.ids))
          IN  /\ ~fnOut.threw
              /\ Len(fnOut.value.features) = Len(good)
              /\ fnOut.value.features = coverageFeatures(good, buildIndex(fnIn.ids))

C23_Witness ==
    /\ Decoded
    /\ Len(fnIn.buffer.records) = 2
    /\ ~fnIn.buffer.records[1].converts
    /\ fnOut.res.value = <<HexB>>

(* C29: buildCoverageGeoJSON returns, in row order, exactly the boundary    *)
(* features whose composed code (two-digit state FIPS, then the county code *)
(* padded to three digits) is an entry of the boundary index; and for the   *)
(* state-level rows, which have no county code, every row with a known      *)
(* state yields the boundary feature of that state.                         *)
C29_FeaturesOfMatchingRows ==
    Built =>
        LET index == buildIndex(fnIn.ids)
            good  == SelectSeq(fnIn.rows, LAMBDA r : RowMatches(r, fnIn.ids))
        IN  /\ fnOut.value.features = [i \in 1..Len(good) |-> index[composedCode(good[i])]]
            /\ \A i \in 1..Len(fnIn.rows) :
                  (fnIn.rows[i].countycode = "" /\ composedCode(fnIn.rows[i]) # "") =>
                      \E k \in 1..Len(fnOut.value.features) :
                          SubSeq(padStart(fnOut.value.features[k].id, 5, "0"), 1, 2)
                              = SubSeq(composedCode(fnIn.rows[i]), 1, 2)

(* C25: the dedupe key of a record is its identifier (properties.h3index)   *)
(* whenever the record has one, and the rounded first coordinate only when  *)
(* it has none; every record with an identifier or a first coordinate gets  *)
(* a key and can enter the merged output.                                   *)
C25_KeyIsIdElseCoordinate ==
    Keyed =>
        /\ fnIn.f.hasH3 => fnOut.dk = fnIn.f.h3index
        /\ (~fnIn.f.hasH3 /\ fnIn.f.hasCoord) =>
              fnOut.dk = toFixed4(fnIn.f.coord[1]) \o "," \o toFixed4(fnIn.f.coord[2])
        /\ (fnIn.f.hasH3 \/ fnIn.f.hasCoord) =>
              (fnOut.dk # "" /\ fnOut.features = <<fnIn.f>>)

(* ------------------------------------------------------------------------ *)
(* The add-provider panel: selectProvider, resetToSearch, the technology     *)
(* chips and handleAddToMap                                                 *)
(* ------------------------------------------------------------------------ *)

MaxSelects == 3

PanelA == [id |-> "477", name |-> "Acme"]
PanelB == [id |-> "130403", name |-> "Bolt"]
PanelProviders == {PanelA, PanelB}

\* what GET /:id/technologies can answer for the provider: an error, an empty list, or
\* the resolved identity and its technologies
TechResponses(p) ==
    {[ok |-> FALSE, technologies |-> <<>>, providerId |-> "", providerName |-> "",
      source |-> ""],
     [ok |-> TRUE, technologies |-> <<>>, providerId |-> p.id, providerName |-> p.name,
      source |-> "form477"]}
    \cup (IF p = PanelA
          THEN {[ok |-> TRUE, technologies |-> <<"50", "70">>, providerId |-> "130077",
                 providerName |-> "Acme Fiber", source |-> "bdc_resolved"]}
          ELSE {[ok |-> TRUE, technologies |-> <<"40">>, providerId |-> p.id,
                 providerName |-> p.name, source |-> "bdc"]})

\* resetPanel(), and the view the module starts with; a selected tech code c is held as
\* [code |-> c]
PanelClosed ==
    [open |-> FALSE, selectedProvider |-> Null, selectedTechCode |-> Null,
     resultsVisible |-> FALSE, selectedHidden |-> TRUE, techHidden |-> TRUE,
     addActionsHidden |-> TRUE, addDisabled |-> TRUE, chips |-> <<>>,
     pending |-> {}, selects |-> 0, latest |-> Null,
     resolvedBy |-> Null, chipsBy |-> Null, techBy |-> Null, added |-> NoOp]

InitPanel ==
    /\ panel = PanelClosed
    /\ IdleCache /\ IdleTech /\ IdleName /\ IdleCover /\ IdleScore
    /\ IdlePure /\ IdleJoin /\ IdleGeo /\ IdleFcc /\ IdleFn /\ IdleLayers /\ IdleExtra

OtherThanPanel ==
    <<cacheVars, techVars, nameVars, coverVars, scoreVars, pureVars, joinVars, geoVars,
      fccVars, fnVars, layerVars, extraVars>>

\* resetPanel(): the fields openAddPanel clears
resetPanel(P) ==
    [P EXCEPT !.selectedProvider = Null, !.selectedTechCode = Null,
              !.resultsVisible = FALSE, !.selectedHidden = TRUE, !.techHidden = TRUE,
              !.addActionsHidden = TRUE, !.addDisabled = TRUE]

\* click on #add-provider-btn
openAddPanel ==
    /\ ~panel.open
    /\ panel' = [resetPanel(panel) EXCEPT !.open = TRUE]
    /\ UNCHANGED OtherThanPanel

\* click on #back-btn
closeAddPanel ==
    /\ panel.open
    /\ panel' = [panel EXCEPT !.open = FALSE]
    /\ UNCHANGED OtherThanPanel

\* performSearch resolves: renderSearchResults shows the list of providers
renderSearchResults ==
    /\ panel.open
    /\ ~panel.resultsVisible
    /\ panel' = [panel EXCEPT !.resultsVisible = TRUE]
    /\ UNCHANGED OtherThanPanel

\* selectProvider(provider) up to its await: click on a search result
selectProvider(provider) ==
    /\ panel.open
    /\ panel.resultsVisible
    /\ panel.selects < MaxSelects
    /\ LET n == panel.selects + 1
       IN  panel' = [panel EXCEPT !.selectedProvider = provider,
                                  !.selectedTechCode = Null,
                                  !.resultsVisible = FALSE,
                                  !.selectedHidden = FALSE,
                                  !.techHidden = FALSE,
                                  !.chips = <<>>,
                                  !.addActionsHidden = TRUE,
                                  !.addDisabled = TRUE,
                                  !.pending = @ \cup {[n |-> n, provider |-> provider]},
                                  !.selects = n,
                                  !.latest = provider]
    /\ UNCHANGED OtherThanPanel

\* a continuation that drops the answer of a selection that is no longer the current one
techSettles_LatestOnly(P, r, techData) ==
    IF r.n # P.selects \/ P.selectedProvider = Null THEN P
    ELSE IF ~techData.ok THEN P
    ELSE LET resolved == [id |-> techData.providerId, name |-> techData.providerName,
                          techSource |-> techData.source]
             P1 == [P EXCEPT !.selectedProvider = resolved, !.resolvedBy = [provider |-> r.provider, techData |-> techData]]
         IN  IF techData.technologies = <<>> THEN P1
             ELSE [P1 EXCEPT !.chips = techData.technologies, !.chipsBy = [provider |-> r.provider, techData |-> techData],
                             !.addActionsHidden = FALSE]

\* selectProvider after its await: techData arrives (or the request throws) for the
\* selection r; selectedProvider = {...provider, id: techData.providerId || provider.id,
\* ...}; if (!codes.length) return; renderTechChips(codes); addActionsSection shown
techSettles(P, r, techData) ==
    IF ~techData.ok THEN P
    ELSE LET resolved == [id |-> techData.providerId, name |-> techData.providerName,
                          techSource |-> techData.source]
             P1 == [P EXCEPT !.selectedProvider = resolved, !.resolvedBy = [provider |-> r.provider, techData |-> techData]]
         IN  IF techData.technologies = <<>> THEN P1
             ELSE [P1 EXCEPT !.chips = techData.technologies, !.chipsBy = [provider |-> r.provider, techData |-> techData],
                             !.addActionsHidden = FALSE]

TechResponse(r, techData) ==
    /\ r \in panel.pending
    /\ techData \in TechResponses(r.provider)
    /\ LET P == techSettles(panel, r, techData)
       IN  panel' = [P EXCEPT !.pending = @ \ {r}]
    /\ UNCHANGED OtherThanPanel

\* click on 'Change' in the selected-provider display
resetToSearch ==
    /\ panel.open
    /\ ~panel.selectedHidden
    /\ panel' = [panel EXCEPT !.selectedProvider = Null, !.selectedTechCode = Null,
                              !.selectedHidden = TRUE, !.techHidden = TRUE,
                              !.addActionsHidden = TRUE, !.addDisabled = TRUE]
    /\ UNCHANGED OtherThanPanel

\* click on the chip i of #tech-chips
chipClick(i) ==
    /\ panel.open
    /\ ~panel.techHidden
    /\ i \in 1..Len(panel.chips)
    /\ panel' = [panel EXCEPT !.selectedTechCode = [code |-> panel.chips[i]],
                              !.techBy = panel.chipsBy,
                              !.addDisabled = FALSE]
    /\ UNCHANGED OtherThanPanel

\* click on #add-to-map-btn: if (!selectedProvider || !selectedTechCode) return;
\* onAddCallback(selectedProvider, selectedTechCode); closeAddPanel()
handleAddToMap ==
    /\ panel.open
    /\ ~panel.addActionsHidden
    /\ ~panel.addDisabled
    /\ panel' = IF panel.selectedProvider = Null \/ panel.selectedTechCode = Null
                THEN panel
                ELSE [panel EXCEPT !.open = FALSE,
                                   !.added = [op |-> "add",
                                              provider |-> panel.selectedProvider,
                                              techCode |-> panel.selectedTechCode.code,
                                              latest |-> panel.latest,
                                              resolvedBy |-> panel.resolvedBy,
                                              techBy |-> panel.techBy]]
    /\ UNCHANGED OtherThanPanel

NextPanel ==
    \/ openAddPanel
    \/ closeAddPanel
    \/ renderSearchResults
    \/ \E provider \in PanelProviders : selectProvider(provider)
    \/ \E r \in panel.pending :
            \E techData \in TechResponses(r.provider) : TechResponse(r, techData)
    \/ resetToSearch
    \/ \E i \in 1..2 : chipClick(i)
    \/ handleAddToMap

SpecPanel == InitPanel /\ [][NextPanel]_vars

AddedToMap == panel.added.op = "add"

(* C28: whenever 'Add to Map' invokes the add callback, the provider passed *)
(* is the most recently selected provider with the providerId (and name)    *)
(* its technologies resolution returned, and the tech code passed is one of *)
(* the technologies resolved for that same provider, whatever the           *)
(* interleaving of selections, resets and technology responses.             *)
C28_AddsResolvedLatestSelection ==
    AddedToMap =>
        /\ panel.added.resolvedBy # Null
        /\ panel.added.resolvedBy.provider = panel.added.latest
        /\ panel.added.provider.id = panel.added.resolvedBy.techData.providerId
        /\ panel.added.provider.name = panel.added.resolvedBy.techData.providerName
        /\ panel.added.techBy # Null
        /\ panel.added.techBy.provider = panel.added.latest
        /\ panel.added.techCode \in Range(panel.added.techBy.techData.technologies)

(* ------------------------------------------------------------------------ *)
(* The layers of the map: handleProviderAdd, handleRemoveProvider and        *)
(* addCoverageOverlay, with several adds in flight                          *)
(* ------------------------------------------------------------------------ *)

MaxLayerAdds == 3     \* layers added by handleProviderAdd
MaxInFlight == 2      \* handleProviderAdd calls waiting at once

LayerProviders == {[id |-> "477", name |-> "Acme"]}
LayerTechs == {"50", "70"}

\* what the two coverage tiers give an add: features, nothing, or an error
CoverageResults == {"features", "none", "error"}

\* the module state with no layer: activeProviders, the sidebar cards, usedColors and
\* colorIndex, providerOverlays, the overlays on the map, those of them whose visible
\* is false, and the adds in flight
NoLayers ==
    [activeProviders |-> EmptyMap, cards |-> EmptyBag, usedColors |-> EmptyMap,
     colorIndex |-> 0, providerOverlays |-> EmptyMap, mapOverlays |-> {},
     hidden |-> {}, adds |-> {}, fetches |-> 0, lastAdd |-> NoOp]

InitLayers ==
    /\ layers = NoLayers
    /\ IdleCache /\ IdleTech /\ IdleName /\ IdleCover /\ IdleScore
    /\ IdlePure /\ IdleJoin /\ IdleGeo /\ IdleFcc /\ IdleFn /\ IdlePanel /\ IdleExtra

OtherThanLayers ==
    <<cacheVars, techVars, nameVars, coverVars, scoreVars, pureVars, joinVars, geoVars,
      fccVars, fnVars, panelVars, extraVars>>

\* if (activeProviders.has(key)) { showToast(...); return; }
alreadyActive(L, key) == MapHas(L.activeProviders, key)

\* removeCoverageOverlay: const entry = providerOverlays.get(key); if (!entry) return;
\* map.removeOverlays(entry.overlays); providerOverlays.delete(key)
removeCoverageOverlay(L, key) ==
    IF ~MapHas(L.providerOverlays, key) THEN L
    ELSE [L EXCEPT !.mapOverlays = @ \ L.providerOverlays[key].overlays,
                   !.hidden = @ \ L.providerOverlays[key].overlays,
                   !.providerOverlays = MapDelete(@, key)]

\* toggleCoverageOverlay: const entry = providerOverlays.get(key); if (!entry) return;
\* entry.visible = visible; overlay.visible = visible for each of entry.overlays
toggleCoverageOverlay(L, key, visible) ==
    IF ~MapHas(L.providerOverlays, key) THEN L
    ELSE [L EXCEPT !.providerOverlays =
                       MapSet(@, key, [L.providerOverlays[key] EXCEPT !.visible = visible]),
                   !.hidden = IF visible THEN @ \ L.providerOverlays[key].overlays
                              ELSE @ \cup L.providerOverlays[key].overlays]

\* handleProviderAdd(provider, techCode) up to its first await: the guard, assignColor,
\* activeProviders.set, addProviderCard, and the coverage fetch it starts
handleProviderAdd(provider, techCode) ==
    LET key == layerKey(provider.id, techCode)
        L   == layers
    IN  /\ IF alreadyActive(L, key)
           THEN layers' = [L EXCEPT !.lastAdd = [op |-> "already", key |-> key]]
           ELSE /\ Cardinality(L.adds) < MaxInFlight
                /\ L.colorIndex < MaxLayerAdds
                /\ LET n   == L.colorIndex
                       idx == IF MapHas(L.usedColors, key) THEN L.usedColors[key]
                              ELSE n % Len(PROVIDER_COLORS)
                   IN  layers' =
                         [L EXCEPT !.usedColors = MapSet(@, key, idx),
                                   !.colorIndex = IF MapHas(L.usedColors, key) THEN @
                                                  ELSE @ + 1,
                                   !.activeProviders =
                                       MapSet(@, key,
                                              [techCode |-> techCode,
                                               colorHex |-> PROVIDER_COLORS[idx + 1],
                                               visible |-> TRUE]),
                                   !.cards = @ (+) SetToBag({key}),
                                   !.fetches = @ + 1,
                                   !.adds = @ \cup {[n |-> n, key |-> key,
                                                     pc |-> "fetch"]},
                                   !.lastAdd = [op |-> "started", key |-> key]]
        /\ UNCHANGED OtherThanLayers

\* the coverage of the add a has arrived: with features, addCoverageOverlay runs up to
\* its await (removeCoverageOverlay, then the import); without, the add is over
CoverageArrives(a, result) ==
    /\ a \in layers.adds
    /\ a.pc = "fetch"
    /\ layers' =
         IF result = "features"
         THEN [removeCoverageOverlay(layers, a.key) EXCEPT
                  !.adds = (@ \ {a}) \cup {[a EXCEPT !.pc = "import"]}]
         ELSE [layers EXCEPT !.adds = @ \ {a}]
    /\ UNCHANGED OtherThanLayers

\* addCoverageOverlay after await importGeoJSONAsync(geojson): map.addOverlays(overlays);
\* providerOverlays.set(key, { overlays, visible: true }); a failed import throws
ImportSettles(a, ok) ==
    /\ a \in layers.adds
    /\ a.pc = "import"
    /\ layers' =
         IF ok
         THEN [layers EXCEPT !.mapOverlays = @ \cup {[key |-> a.key, n |-> a.n]},
                             !.providerOverlays =
                                 MapSet(@, a.key,
                                        [overlays |-> {[key |-> a.key, n |-> a.n]},
                                         visible |-> TRUE]),
                             !.adds = @ \ {a}]
         ELSE [layers EXCEPT !.adds = @ \ {a}]
    /\ UNCHANGED OtherThanLayers

\* click on the card's remove button: removeProviderCard(id, techCode), then
\* handleRemoveProvider: if (!activeProviders.has(key)) return;
\* removeCoverageOverlay; releaseColor(key); activeProviders.delete(key)
handleRemoveProvider(provider, techCode) ==
    LET key == layerKey(provider.id, techCode)
        L1  == [layers EXCEPT !.cards = @ (-) SetToBag({key})]
    IN  /\ BagIn(key, layers.cards)
        /\ layers' =
             IF ~MapHas(L1.activeProviders, key) THEN L1
             ELSE [removeCoverageOverlay(L1, key) EXCEPT
                      !.usedColors = MapDelete(@, key),
                      !.activeProviders = MapDelete(@, key)]
        /\ UNCHANGED OtherThanLayers

\* click on the card's visibility button: handleToggleProvider(id, techCode, visible):
\* if (!entry) return; entry.visible = visible; toggleCoverageOverlay(...)
handleToggleProvider(provider, techCode, visible) ==
    LET key == layerKey(provider.id, techCode)
    IN  /\ BagIn(key, layers.cards)
        /\ layers' =
             IF ~MapHas(layers.activeProviders, key) THEN layers
             ELSE toggleCoverageOverlay(
                      [layers EXCEPT !.activeProviders =
                           MapSet(@, key, [layers.activeProviders[key] EXCEPT
                                               !.visible = visible])],
                      key, visible)
        /\ UNCHANGED OtherThanLayers

NextLayers ==
    \/ \E provider \in LayerProviders, techCode \in LayerTechs :
            handleProviderAdd(provider, techCode)
    \/ \E provider \in LayerProviders, techCode \in LayerTechs, visible \in BOOLEAN :
            handleToggleProvider(provider, techCode, visible)
    \/ \E a \in layers.adds, result \in CoverageResults : CoverageArrives(a, result)
    \/ \E a \in layers.adds, ok \in BOOLEAN : ImportSettles(a, ok)
    \/ \E provider \in LayerProviders, techCode \in LayerTechs :
            handleRemoveProvider(provider, techCode)

SpecLayers == InitLayers /\ [][NextLayers]_vars

LayerKeys == {layerKey(p.id, t) : p \in LayerProviders, t \in LayerTechs}

\* a step of handleProviderAdd for a key that is active
AddOfActiveKey ==
    /\ layers # NoOp
    /\ layers'.lastAdd # layers.lastAdd
    /\ layers'.lastAdd.op = "already"

\* the entry, card, colour, fetches and overlays are what they were
LayersKept ==
    layers' = [layers EXCEPT !.lastAdd = layers'.lastAdd]

\* no key has two cards or two overlays on the map
OneLayerPerKey ==
    layers # NoOp =>
        \A key \in LayerKeys :
            /\ CopiesIn(key, layers.cards) <= 1
            /\ Cardinality({o \in layers.mapOverlays : o.key = key}) <= 1

(* C30: handleProviderAdd for a key that is already active changes nothing  *)
(* (no second activeProviders entry, card, colour assignment, coverage      *)
(* fetch or overlay), and after any sequence of adds and removes each key   *)
(* has at most one layer.                                                   *)
C30_ActiveKeyAddedOnce ==
    [][(AddOfActiveKey => LayersKept) /\ OneLayerPerKey']_vars

(* C34: after any interleaving of add, remove and in-flight loads, every    *)
(* key with an entry in providerOverlays also has one in activeProviders,   *)
(* so a provider removed while its coverage is loading has no overlay once  *)
(* the load finishes.                                                       *)
C34_OverlaysOnlyOfActiveLayers ==
    layers # NoOp =>
        \A key \in LayerKeys :
            MapHas(layers.providerOverlays, key) => MapHas(layers.activeProviders, key)

\* the visible flags of the layer key agree, down to each overlay on the map
VisibilityAgrees(key) ==
    (MapHas(layers.activeProviders, key) /\ MapHas(layers.providerOverlays, key)) =>
        /\ layers.providerOverlays[key].visible = layers.activeProviders[key].visible
        /\ \A o \in layers.providerOverlays[key].overlays :
               (o \notin layers.hidden) = layers.activeProviders[key].visible

\* a step that changes the activeProviders entry of one key (a toggle) leaves the
\* entries, the providerOverlays entries and the overlays of every other key alone
ToggleLeavesOthers ==
    [][\A k \in LayerKeys :
        (/\ layers # NoOp
         /\ DOMAIN layers'.activeProviders = DOMAIN layers.activeProviders
         /\ MapHas(layers.activeProviders, k)
         /\ layers'.activeProviders[k] # layers.activeProviders[k])
        => \A j \in LayerKeys \ {k} :
              /\ MapHas(layers.activeProviders, j)
                    => layers'.activeProviders[j] = layers.activeProviders[j]
              /\ MapHas(layers.providerOverlays, j)
                    => layers'.providerOverlays[j] = layers.providerOverlays[j]
              /\ {o \in layers'.hidden : o.key = j} = {o \in layers.hidden : o.key = j}]_vars

(* C35: when a layer has an activeProviders entry and a providerOverlays    *)
(* entry, their visible flags agree and every overlay of the layer has that *)
(* visibility, so a layer toggled hidden while its coverage is loading is   *)
(* hidden once its overlay is added; toggling one layer never changes the   *)
(* visibility of another.                                                   *)
C35_VisibilityAgrees ==
    layers # NoOp => \A key \in LayerKeys : VisibilityAgrees(key)

(* ------------------------------------------------------------------------ *)
(* colors.js alone: any sequence of assignColor and releaseColor calls      *)
(* ------------------------------------------------------------------------ *)

MaxColorCalls == 9    \* colours handed out by assignColor

ColorKeys == {"477:50", "130403:50"}

NoColors == [usedColors |-> EmptyMap, colorIndex |-> 0, last |-> NoOp]

InitColors ==
    /\ colorState = NoColors
    /\ IdleCache /\ IdleTech /\ IdleName /\ IdleCover /\ IdleScore
    /\ IdlePure /\ IdleJoin /\ IdleGeo /\ IdleFcc /\ IdleFn /\ IdlePanel /\ IdleLayers
    /\ IdleRoutes

OtherThanColors ==
    <<cacheVars, techVars, nameVars, coverVars, scoreVars, pureVars, joinVars, geoVars,
      fccVars, fnVars, panelVars, layerVars, routes>>

\* the colours held: PROVIDER_COLORS[usedColors.get(k)] of every k in usedColors
heldColors(used) == {PROVIDER_COLORS[used[k] + 1] : k \in DOMAIN used}

\* assignColor(providerId): if (usedColors.has(providerId)) return its colour;
\* const idx = colorIndex % PROVIDER_COLORS.length; colorIndex++;
\* usedColors.set(providerId, idx); return PROVIDER_COLORS[idx]
assignColor(providerId) ==
    LET C    == colorState
        held == MapHas(C.usedColors, providerId)
        idx  == IF held THEN C.usedColors[providerId]
                ELSE C.colorIndex % Len(PROVIDER_COLORS)
    IN  /\ held \/ C.colorIndex < MaxColorCalls
        /\ colorState' =
             [usedColors |-> IF held THEN C.usedColors
                             ELSE MapSet(C.usedColors, providerId, idx),
              colorIndex |-> IF held THEN C.colorIndex ELSE C.colorIndex + 1,
              last |-> [op |-> "assign", key |-> providerId, held |-> held,
                        color |-> PROVIDER_COLORS[idx + 1],
                        before |-> C.usedColors,
                        consumed |-> ~held]]
        /\ UNCHANGED OtherThanColors

\* releaseColor(providerId): usedColors.delete(providerId)
releaseColor(providerId) ==
    /\ MapHas(colorState.usedColors, providerId)
    /\ colorState' = [colorState EXCEPT !.usedColors = MapDelete(@, providerId),
                                        !.last = [op |-> "release", key |-> providerId]]
    /\ UNCHANGED OtherThanColors

NextColors ==
    \/ \E providerId \in ColorKeys : assignColor(providerId)
    \/ \E providerId \in ColorKeys : releaseColor(providerId)

SpecColors == InitColors /\ [][NextColors]_vars

Assigned == colorState # NoOp /\ colorState.last.op = "assign"

\* a layer that holds a colour gets the same colour again, and the counter stays
SameColourAgain ==
    (Assigned /\ colorState.last.held) =>
        /\ colorState.last.color =
              PROVIDER_COLORS[colorState.last.before[colorState.last.key] + 1]
        /\ ~colorState.last.consumed
        /\ colorState.usedColors = colorState.last.before

(* C31: after any sequence of assignColor and releaseColor calls, while     *)
(* fewer than 8 layers hold a colour a newly assigned layer receives a      *)
(* colour that no other layer holds, and assignColor for a layer that holds *)
(* a colour returns the same colour without consuming another one.          *)
C31_NextAvailableColour ==
    /\ SameColourAgain
    /\ (/\ Assigned
        /\ ~colorState.last.held
        /\ Cardinality(DOMAIN colorState.last.before) < Len(PROVIDER_COLORS)) =>
            colorState.last.color \notin heldColors(colorState.last.before)

(* ------------------------------------------------------------------------ *)
(* The Express routes: /api/providers/search, /api/providers/:id/           *)
(* technologies, their flat aliases, and /api/coverage, one request each    *)
(* ------------------------------------------------------------------------ *)

\* a query parameter: absent (undefined), or a string
Absent == [present |-> FALSE, value |-> ""]
Param(str) == [present |-> TRUE, value |-> str]

\* String(p || ''), and (p || '') of a string parameter
orEmpty(p) == IF p.present THEN p.value ELSE ""

NaN == [nan |-> TRUE, value |-> 0]

\* the longest prefix of decimal digits
RECURSIVE digitsPrefix(_)
digitsPrefix(str) ==
    IF str = "" \/ ~IsIn(Head(str), DigitChars) THEN ""
    ELSE Head(str) \o digitsPrefix(Tail(str))

RECURSIVE trimStart(_)
trimStart(str) == IF str # "" /\ Head(str) = " " THEN trimStart(Tail(str)) ELSE str

\* parseInt(p): leading white space, an optional sign, decimal digits; NaN without digits
parseInt(p) ==
    IF ~p.present THEN NaN
    ELSE LET t      == trimStart(p.value)
             signed == t # "" /\ (Head(t) = "-" \/ Head(t) = "+")
             digits == digitsPrefix(IF signed THEN Tail(t) ELSE t)
         IN  IF digits = "" THEN NaN
             ELSE [nan |-> FALSE,
                   value |-> IF Head(t) = "-" THEN 0 - Number(digits) ELSE Number(digits)]

\* a limit kept at 1 or more
effectiveLimit_AtLeastOne(p) ==
    LET n == IF parseInt(p).nan \/ parseInt(p).value = 0 THEN 20 ELSE parseInt(p).value
    IN  IF n < 1 THEN 1 ELSE IF n < 50 THEN n ELSE 50

\* Math.min(parseInt(req.query.limit) || 20, 50)
effectiveLimit(p) ==
    LET n == IF parseInt(p).nan \/ parseInt(p).value = 0 THEN 20 ELSE parseInt(p).value
    IN  IF n < 50 THEN n ELSE 50

\* searchProviders(query, limit) with nothing cached, given what bdcFetch and
\* socrataFetch do: the result, the requests made, the setCached calls
searchProvidersRun(query, limit, env) ==
    IF env.bdc.ok /\ Len(bdcProviders(env.bdc.rows, limit)) > 0
    THEN [threw |-> FALSE, value |-> bdcProviders(env.bdc.rows, limit), via |-> "bdc",
          upstream |-> 1, cacheWrites |-> 1]
    ELSE IF ~env.socrata.ok
    THEN [threw |-> TRUE, value |-> <<>>, via |-> "socrata", upstream |-> 2,
          cacheWrites |-> 0]
    ELSE [threw |-> FALSE, value |-> socrataProviders(env.socrata.rows, limit),
          via |-> "socrata", upstream |-> 2, cacheWrites |-> 1]

\* the search routes without the check of the query's length
searchRoute_Unchecked(req, env) ==
    LET limit == effectiveLimit(req.limit)
        run   == searchProvidersRun(trim(orEmpty(req.q)), limit, env)
    IN  [status |-> IF run.threw THEN 502 ELSE 200, providers |-> run.value,
         validated |-> TRUE, limit |-> limit, via |-> run.via,
         upstream |-> run.upstream, cacheWrites |-> run.cacheWrites]

\* router.get('/search') and app.get('/api/providers-search'): the same statements
searchRoute(req, env) ==
    LET q == trim(orEmpty(req.q))
    IN  IF q = "" \/ Len(q) < 2
        THEN [status |-> 200, providers |-> <<>>, validated |-> FALSE, limit |-> 0,
              via |-> "", upstream |-> 0, cacheWrites |-> 0]
        ELSE LET limit == effectiveLimit(req.limit)
                 run   == searchProvidersRun(q, limit, env)
             IN  [status |-> IF run.threw THEN 502 ELSE 200, providers |-> run.value,
                  validated |-> TRUE, limit |-> limit, via |-> run.via,
                  upstream |-> run.upstream, cacheWrites |-> run.cacheWrites]

\* resolveProviderTechnologies(providerId, providerName) run to its return with empty
\* caches, given what each of its upstream requests does
settleNext(o, env) ==
    IF o.c.pc = "probe1" THEN probeSettle(o.w, o.c, env.probe1, 0)
    ELSE IF o.c.pc = "probe2" THEN probeSettle(o.w, o.c, env.probe2, 0)
    ELSE IF o.c.pc = "search" THEN searchSettle(o.w, o.c, env.search, 0)
    ELSE tabularSettle(o.w, o.c, env.tabular, 0)

RECURSIVE runTech(_, _)
runTech(o, env) == IF o.done THEN o ELSE runTech(settleNext(o, env), env)

ColdWorld == [probe |-> EmptyMap, timers |-> {}, names |-> EmptyMap, cache |-> EmptyMap]

newCall(providerId, providerName) ==
    [pc |-> "start", providerId |-> providerId, providerName |-> providerName,
     resolvedBdc |-> Null, rst |-> NoResolve, probes |-> 0, searches |-> 0,
     fetches |-> 0, stages |-> <<>>, start |-> 0, startEntry |-> <<>>]

\* res.status(400).json({ error: 'Provider ID required' })
BadRequest == [status |-> 400, body |-> Null, upstream |-> 0, cacheWrites |-> FALSE]

\* try { res.json(await resolveProviderTechnologies(...)) } catch { res.status(502) }
answerOf(o) ==
    [status |-> IF o.threw THEN 502 ELSE 200, body |-> o.result,
     upstream |-> o.c.probes + o.c.searches + o.c.fetches,
     cacheWrites |-> o.w # ColdWorld]

technologiesAnswer(providerId, providerName, env) ==
    answerOf(runTech(techStart(ColdWorld, newCall(providerId, providerName), 0), env))

\* router.get('/:id/technologies'): providerName = String(req.query.provider_name || '')
technologiesRoute(req, env) ==
    IF req.id = "" THEN BadRequest
    ELSE technologiesAnswer(req.id, orEmpty(req.provider_name), env)

\* app.get('/api/providers-technologies'): resolveProviderTechnologies(providerId)
flatTechnologiesRoute(req, env) ==
    LET providerId == trim(req.id)
    IN  IF providerId = "" THEN BadRequest
        ELSE technologiesAnswer(providerId, "", env)

\* router.get('/') of /api/coverage: the validation, getProviderStateCoverage, and
\* buildCoverageGeoJSON when there are rows (which loads the boundary file)
coverageRoute(req, env) ==
    IF orEmpty(req.provider_id) = "" \/ orEmpty(req.tech_code) = ""
    THEN [status |-> 400, upstream |-> 0, cacheWrites |-> FALSE]
    ELSE IF ~env.coverage.ok THEN [status |-> 502, upstream |-> 1, cacheWrites |-> FALSE]
    ELSE IF env.coverage.rows = <<>>
    THEN [status |-> 200, upstream |-> 1, cacheWrites |-> TRUE]
    ELSE [status |-> IF env.counties.ok THEN 200 ELSE 502, upstream |-> 2,
          cacheWrites |-> TRUE]

TechEnvs ==
    {[probe1 |-> p1, probe2 |-> p2, search |-> o, tabular |-> t] :
        p1 \in {ProbeAll("empty"), ProbeSome({"50"}, 3, "empty")},
        p2 \in {ProbeAll("error"), ProbeSome({"70", "40"}, 8, "error")},
        o \in TechSearchOutcomes, t \in TabularOutcomes}

TechRequests ==
    {[route |-> "technologies", id |-> id, provider_name |-> n, env |-> e] :
        id \in {"", "477"}, n \in {Absent, Param("Acme Fiber (TX)")}, e \in TechEnvs}

CoverageRequests ==
    {[route |-> "/api/coverage", provider_id |-> p, tech_code |-> t,
      env |-> [coverage |-> c, counties |-> k]] :
        p \in {Absent, Param(""), Param("477")}, t \in {Absent, Param("50")},
        c \in CoverageOutcomes, k \in CountyOutcomes}

BdcRowC == [provider_id |-> 131425, provider_name |-> "Acme Cable"]

SearchEnvs ==
    {[bdc |-> b, socrata |-> o] :
        b \in BdcOutcomes \cup {[ok |-> TRUE, rows |-> <<BdcRowA, BdcRowB, BdcRowC>>]},
        o \in SocrataSearchOutcomes}

SearchRequests ==
    {[route |-> r, q |-> q, limit |-> l, env |-> e] :
        r \in {"/api/providers/search", "/api/providers-search"},
        q \in {Absent, Param("a"), Param(" a "), Param(" Acme ")},
        l \in {Absent, Param("abc"), Param("0"), Param("-1"), Param("2"), Param("50"),
               Param("100")},
        e \in SearchEnvs}

RouteInputs == SearchRequests \cup TechRequests \cup CoverageRequests

InitRoutes ==
    /\ routes \in {[in |-> i, out |-> NoOp] : i \in RouteInputs}
    /\ IdleCache /\ IdleTech /\ IdleName /\ IdleCover /\ IdleScore
    /\ IdlePure /\ IdleJoin /\ IdleGeo /\ IdleFcc /\ IdleFn /\ IdlePanel /\ IdleLayers
    /\ IdleColors

OtherThanRoutes ==
    <<cacheVars, techVars, nameVars, coverVars, scoreVars, pureVars, joinVars, geoVars,
      fccVars, fnVars, panelVars, layerVars, colorState>>

\* a search route answers the request
SearchRouteStep ==
    /\ routes.out = NoOp
    /\ routes.in.route \in {"/api/providers/search", "/api/providers-search"}
    /\ routes' = [routes EXCEPT !.out = [op |-> "search",
                                         res |-> searchRoute(routes.in, routes.in.env)]]
    /\ UNCHANGED OtherThanRoutes

\* the nested and the flat technologies route answer the same request
TechnologiesRouteStep ==
    /\ routes.out = NoOp
    /\ routes.in.route = "technologies"
    /\ routes' = [routes EXCEPT !.out =
                     [op |-> "technologies",
                      nested |-> technologiesRoute(routes.in, routes.in.env),
                      flat |-> flatTechnologiesRoute(routes.in, routes.in.env)]]
    /\ UNCHANGED OtherThanRoutes

\* the coverage route answers the request
CoverageRouteStep ==
    /\ routes.out = NoOp
    /\ routes.in.route = "/api/coverage"
    /\ routes' = [routes EXCEPT !.out = [op |-> "coverage",
                                         res |-> coverageRoute(routes.in, routes.in.env)]]
    /\ UNCHANGED OtherThanRoutes

NextRoutes == SearchRouteStep \/ TechnologiesRouteStep \/ CoverageRouteStep

SpecRoutes == InitRoutes /\ [][NextRoutes]_vars

SearchAnswered == routes # NoOp /\ routes.out.op = "search"

DistinctIds(providers) ==
    \A i, j \in 1..Len(providers) : i # j => providers[i].id # providers[j].id

TechnologiesAnswered == routes # NoOp /\ routes.out.op = "technologies"

CoverageAnswered == routes # NoOp /\ routes.out.op = "coverage"

(* C33: for the same provider id and provider name, GET                     *)
(* /api/providers-technologies returns the same result as GET               *)
(* /api/providers/:id/technologies, name-based cross-resolution included;   *)
(* GET /api/providers-search returns the same result as GET                 *)
(* /api/providers/search for the same q and limit.                          *)
C33_FlatRoutesEquivalent ==
    TechnologiesAnswered =>
        /\ routes.out.flat.status = routes.out.nested.status
        /\ routes.out.flat.body = routes.out.nested.body

Untouched(res) == res.upstream = 0 /\ res.cacheWrites = FALSE

(* C38: a request that fails validation is answered without any upstream    *)
(* fetch or cache write: the coverage route answers 400 when provider_id or *)
(* tech_code is missing, the technologies routes answer 400 when the        *)
(* provider id is empty, and the search routes answer an empty provider     *)
(* list when the query has fewer than 2 characters after trimming.          *)
C38_InvalidRequestsTouchNothing ==
    /\ (CoverageAnswered /\ (~routes.in.provider_id.present \/ ~routes.in.tech_code.present))
          => routes.out.res.status = 400 /\ Untouched(routes.out.res)
    /\ (TechnologiesAnswered /\ routes.in.id = "")
          => /\ routes.out.nested.status = 400 /\ Untouched(routes.out.nested)
             /\ routes.out.flat.status = 400 /\ Untouched(routes.out.flat)
    /\ (SearchAnswered /\ Len(trim(orEmpty(routes.in.q))) < 2)
          => /\ routes.out.res.status = 200 /\ routes.out.res.providers = <<>>
             /\ routes.out.res.upstream = 0 /\ routes.out.res.cacheWrites = 0

C38_Witness ==
    /\ SearchAnswered
    /\ routes.in.q = Param(" a ")
    /\ routes.in.env.bdc.ok /\ routes.in.env.bdc.rows # <<>>
    /\ routes.out.res.upstream = 0

(* C37: for every request to the provider search routes, whatever the limit *)
(* parameter (absent, non-numeric, zero, negative or above 50), the limit   *)
(* passed to searchProviders is between 1 and 50 and the response has at    *)
(* most that many providers, each with a distinct id when they come from    *)
(* the Socrata fallback.                                                    *)
C37_LimitBetween1And50 ==
    (SearchAnswered /\ routes.out.res.validated) =>
        /\ routes.out.res.limit >= 1
        /\ routes.out.res.limit <= 50
        /\ Len(routes.out.res.providers) <= routes.out.res.limit
        /\ routes.out.res.via = "socrata" => DistinctIds(routes.out.res.providers)

(* ------------------------------------------------------------------------ *)
(* scoreNameMatch alone, over names built from a few words                  *)
(* ------------------------------------------------------------------------ *)

InitScore ==
    /\ scoreIn \in [form477Name : ScoreNames, bdcName : ScoreNames]
    /\ scoreOut = -1
    /\ IdleCache /\ IdleTech /\ IdleName /\ IdleCover /\ IdleRest

\* scoreNameMatch(form477Name, bdcName)
ScoreStep ==
    /\ scoreOut = -1
    /\ scoreOut' = scoreNameMatch(scoreIn.form477Name, scoreIn.bdcName)
    /\ UNCHANGED <<scoreIn, cacheVars, techVars, nameVars, coverVars,
                   pureVars, joinVars, geoVars, otherVars>>

NextScore == ScoreStep

SpecScore == InitScore /\ [][NextScore]_vars

TokenSet(name) == Range(Tokens(name))

(* C10: scoreNameMatch(inputName, hitName) is the size of the intersection  *)
(* of the set of meaningful tokens of the input name with the set of        *)
(* meaningful tokens of the hit name, also when the input repeats a token.  *)
C10_ScoreIsIntersection ==
    scoreOut # -1 =>
        scoreOut = Cardinality(TokenSet(scoreIn.form477Name)
                               \cap TokenSet(scoreIn.bdcName))

(* ------------------------------------------------------------------------ *)
(* The name resolver: overlapping resolveBdcProviderByName calls            *)
(* ------------------------------------------------------------------------ *)

\* the bookkeeping of a return of resolveBdcProviderByName
Resolved(r, afterReturn) ==
    LET cacheKey == Normalized(r.st.providerName)
    IN  /\ bdcNameResolutionCache' = r.nameCache
        /\ lastResolve' = [op |-> "return", key |-> cacheKey,
                           providerName |-> r.st.providerName, ret |-> r.ret,
                           fromCache |-> r.st.fromCache, queries |-> r.st.queries,
                           issued |-> r.st.issued, verdicts |-> r.st.verdicts,
                           rows |-> r.rows, afterReturn |-> afterReturn]
        /\ firstResolved' = IF MapHas(firstResolved, cacheKey) THEN firstResolved
                            ELSE MapSet(firstResolved, cacheKey, r.ret)

InitName == IdleCache /\ IdleTech /\ IdleName /\ IdleCover /\ IdleScore /\ IdleRest

\* resolveBdcProviderByName(providerName) is called
ResolveCall(providerName) ==
    LET r == resolveStart(bdcNameResolutionCache, providerName)
        afterReturn == MapHas(firstResolved, Normalized(providerName))
    IN  /\ BagCardinality(resolves) < MaxResolves
        /\ IF r.done
           THEN Resolved(r, afterReturn) /\ UNCHANGED resolves
           ELSE /\ resolves' = resolves (+) SetToBag({[st |-> r.st, afterReturn |-> afterReturn]})
                /\ UNCHANGED <<bdcNameResolutionCache, lastResolve, firstResolved>>
        /\ UNCHANGED <<cacheVars, techVars, coverVars, scoreVars, pureVars, joinVars, geoVars, otherVars>>

\* the search a call awaits settles
ResolveSearchSettles(call, outcome) ==
    /\ BagIn(call, resolves)
    /\ LET r == resolveOnSearch(bdcNameResolutionCache, call.st, outcome)
       IN  IF r.done
           THEN /\ Resolved(r, call.afterReturn)
                /\ resolves' = resolves (-) SetToBag({call})
           ELSE /\ resolves' = (resolves (-) SetToBag({call}))
                                   (+) SetToBag({[call EXCEPT !.st = r.st]})
                /\ UNCHANGED <<bdcNameResolutionCache, lastResolve, firstResolved>>
    /\ UNCHANGED <<cacheVars, techVars, coverVars, scoreVars, pureVars, joinVars, geoVars, otherVars>>

NextName ==
    \/ \E providerName \in ResolverNames : ResolveCall(providerName)
    \/ \E call \in BagToSet(resolves), outcome \in SearchOutcomes :
            ResolveSearchSettles(call, outcome)

SpecName == InitName /\ [][NextName]_vars

(* C7: once the resolver has returned for a normalized name, every call     *)
(* with that normalized name returns that same candidate (or that same      *)
(* none), the cached decision stays, and calls started later search nothing.*)
C7_SameDecisionPerName ==
    /\ lastResolve.op = "return" =>
          /\ lastResolve.ret = firstResolved[lastResolve.key]
          /\ lastResolve.afterReturn => lastResolve.issued = <<>>
    /\ \A key \in DOMAIN firstResolved :
          /\ MapHas(bdcNameResolutionCache, key)
          /\ bdcNameResolutionCache[key] = firstResolved[key]

(* ------------------------------------------------------------------------ *)
(* The name resolver, one call at a time                                    *)
(* ------------------------------------------------------------------------ *)

\* a call that starts when no other call is in flight
ResolveCallAlone(providerName) ==
    /\ resolves = EmptyBag
    /\ ResolveCall(providerName)

NextResolve ==
    \/ \E providerName \in ResolverNames : ResolveCallAlone(providerName)
    \/ \E call \in BagToSet(resolves), outcome \in SearchOutcomes :
            ResolveSearchSettles(call, outcome)

SpecResolve == InitName /\ [][NextResolve]_vars

\* the queries the resolver is to try for a name, in order
ExpectedQueries(providerName) ==
    LET toks == Tokens(providerName)
    IN  IF Len(toks) >= 2 /\ toks[1] \o " " \o toks[2] # toks[1]
        THEN <<toks[1] \o " " \o toks[2], toks[1]>>
        ELSE <<toks[1]>>

Searched == lastResolve.op = "return" /\ ~lastResolve.fromCache
                /\ Tokens(lastResolve.providerName) # <<>>

QueriesInOrder ==
    /\ Len(lastResolve.issued) >= 1
    /\ Len(lastResolve.issued) <= Len(ExpectedQueries(lastResolve.providerName))
    /\ \A i \in 1..Len(lastResolve.issued) :
          lastResolve.issued[i] = ExpectedQueries(lastResolve.providerName)[i]
    /\ Len(lastResolve.verdicts) = Len(lastResolve.issued)

(* C8, as stated: the queries are tried in order and the first query that   *)
(* yields any hits wins: no later query is issued once a query has          *)
(* returned hits, whether or not a hit was accepted.                        *)
C8_FirstHitsWin ==
    Searched =>
        /\ QueriesInOrder
        /\ \A i \in 1..Len(lastResolve.verdicts) :
              lastResolve.verdicts[i] \in {"rejected", "accepted"} =>
                  i = Len(lastResolve.issued)

(* C8, amended: the queries are tried in order (the first two meaningful    *)
(* tokens joined, then the first token alone) and the first query that      *)
(* yields an acceptable hit wins: that query's hits decide the result and   *)
(* no later query is issued; a query that fails, returns nothing or returns *)
(* only unacceptable hits is followed by the next query, and the result is  *)
(* none when no query yields an acceptable hit.                             *)
C8_FirstAcceptedWins ==
    Searched =>
        /\ QueriesInOrder
        /\ \A i \in 1..(Len(lastResolve.verdicts) - 1) :
              lastResolve.verdicts[i] # "accepted"
        /\ lastResolve.ret # Null <=>
              lastResolve.verdicts[Len(lastResolve.verdicts)] = "accepted"
        /\ lastResolve.ret # Null => lastResolve.ret \in Range(lastResolve.rows)
        /\ lastResolve.ret = Null =>
              Len(lastResolve.issued) = Len(ExpectedQueries(lastResolve.providerName))

C8_Witness ==
    /\ Searched
    /\ lastResolve.verdicts = <<"rejected", "accepted">>
    /\ lastResolve.ret = RowAcmeFiber

\* every search of the returned call failed with an upstream error
EverySearchFailed ==
    /\ lastResolve.verdicts # <<>>
    /\ \A i \in 1..Len(lastResolve.verdicts) : lastResolve.verdicts[i] = "throw"

\* the name resolution cache holds none for the key of the returned call
NoneCached ==
    /\ MapHas(bdcNameResolutionCache, lastResolve.key)
    /\ bdcNameResolutionCache[lastResolve.key] = Null

(* C36: resolveBdcProviderByName caches none for a name only when the name  *)
(* has no meaningful tokens or a search completed successfully and gave no  *)
(* acceptable match; when every search attempt fails with an upstream error *)
(* nothing is cached for the name, so that a later call searches again.     *)
C36_NoneCachedOnlyAfterCompletedSearch ==
    (lastResolve.op = "return" /\ ~lastResolve.fromCache) =>
        /\ NoneCached =>
              \/ Tokens(lastResolve.providerName) = <<>>
              \/ \E i \in 1..Len(lastResolve.verdicts) :
                     lastResolve.verdicts[i] \in {"empty", "rejected"}
        /\ EverySearchFailed => ~MapHas(bdcNameResolutionCache, lastResolve.key)

Min2(n) == IF n < 2 THEN n ELSE 2

(* C9: the resolver returns a hit only if that hit has the highest score    *)
(* among the hits of the answer it came from and its score is at least      *)
(* min(2, number of meaningful tokens of the input name); otherwise it      *)
(* returns none.  "Comcast" with the hit "Comcast Cable Communications      *)
(* LLC" is accepted.                                                        *)
C9_BestAboveThreshold ==
    lastResolve.op = "return" =>
        LET name  == lastResolve.providerName
            least == Min2(Len(Tokens(name)))
        IN  /\ lastResolve.ret # Null =>
                  scoreNameMatch(name, lastResolve.ret.name) >= least
            /\ (lastResolve.ret # Null /\ ~lastResolve.fromCache) =>
                  /\ lastResolve.ret \in Range(lastResolve.rows)
                  /\ \A row \in Range(lastResolve.rows) :
                        scoreNameMatch(name, row.name)
                            <= scoreNameMatch(name, lastResolve.ret.name)
            /\ (lastResolve.ret = Null /\ ~lastResolve.fromCache) =>
                  \A row \in Range(lastResolve.rows) :
                        scoreNameMatch(name, row.name) < least
            /\ (name = "Comcast" /\ lastResolve.rows = <<RowComcast>>) =>
                  lastResolve.ret = RowComcast

C9_Witness ==
    /\ lastResolve.op = "return"
    /\ lastResolve.providerName = "Comcast"
    /\ ~lastResolve.fromCache
    /\ lastResolve.rows = <<RowAcmeTel, RowComcast>>
    /\ lastResolve.ret = RowComcast

====
